---- MODULE Spec2Model ----
(***************************************************************************)
(* A model of the decoding core of sysutil (cpy-dev/sysutil, Rust):        *)
(*   - utils.rs    bytesToU16 / bytesToU32 / bytesToU64, linuxCheck,       *)
(*                 readFile                                                *)
(*   - gpu.rs      gpuMetrics                                              *)
(*   - network.rs  bytesToAddress, bytesToPort, RouteStatus::fromTcpCode,  *)
(*                 getRoutes, networkRoutes, netmaskFromCidr, getIPv4      *)
(*                                                                         *)
(* Conventions.                                                            *)
(*   - A Rust Vec<u8> is a TLA+ sequence of numbers in 0..255; Rust index  *)
(*     i is TLA+ index i+1.                                                *)
(*   - A Rust String is a sequence of one-character strings.               *)
(*   - TLC's integers are 32 bits wide, so u32 and u64 values are kept as  *)
(*     their base-256 digits, least significant digit first (a "wide"      *)
(*     number of 4 or 8 digits).  The number with digits d is              *)
(*     d[1] + d[2]*256 + d[3]*256^2 + ...  u16 values are plain integers.  *)
(*   - The result of a call that can panic is a record                     *)
(*     [panic |-> "none" | "index" | "overflow" | "parse" | "unwrap",      *)
(*      val |-> ...].                                                      *)
(*   - overflow checks: Rust panics on integer overflow when the crate is  *)
(*     built with overflow-checks (the debug profile) and wraps otherwise  *)
(*     (the release profile).  The build is fixed when the model starts.   *)
(***************************************************************************)
EXTENDS Integers, Sequences, FiniteSets, TLC

VARIABLES
    overflowChecks, \* TRUE iff the crate is built with overflow checks
    call,       \* the last call of a pure decoding primitive, with its result;
                \* or the position of a getIPv4 call in its scan loop; or the
                \* files and the result of the getIPv4 call before the last
    host,       \* which of /sys and /proc exist on the host
    gpuFile,    \* /sys/class/drm/card0/device/gpu_metrics
    gpuOut,     \* the outcome of the last gpuMetrics() call
    netFiles,   \* the files under /proc/net that the call reads:
                \* tcp, udp, tcp6, udp6 or route, fib_trie
    netOut      \* the outcome of the last networkRoutes() or getIPv4() call

gpuVars == <<gpuFile, gpuOut>>
netVars == <<netFiles, netOut>>
vars == <<overflowChecks, call, host, gpuVars, netVars>>

----------------------------------------------------------------------------
(* Bounds of the model *)

\* longest byte sequence handed to bytesToU16 / bytesToU32 / bytesToU64
MaxLen == 9

\* longest gpu_metrics buffer
MaxGpuLen == 80

\* most hex pairs of an address handed to bytesToAddress (besides the 16 of
\* an IPv6 address)
MaxOctets == 4

\* most data lines in the four /proc/net files together, in the text handed
\* to getRoutes, and in /proc/net/route
MaxRouteLines == 2

\* most local addresses in a table of /proc/net/fib_trie
MaxAddresses == 2

\* number of consecutive getIPv4 calls of one behaviour
MaxCalls == 3

\* number of address blocks of an irregular fib_trie
MaxBlocks == 2

----------------------------------------------------------------------------
(* Generic helpers *)

Byte == 0..255

Reverse(s) == [i \in 1..Len(s) |-> s[Len(s) + 1 - i]]

\* all sequences over S of length 0..n
RECURSIVE SeqsUpTo(_, _)
SeqsUpTo(S, n) ==
    IF n = 0 THEN {<<>>}
    ELSE LET shorter == SeqsUpTo(S, n - 1)
         IN  shorter \cup {Append(s, x) : s \in {t \in shorter : Len(t) = n - 1}, x \in S}

NoPanic(v) == [panic |-> "none", val |-> v]
Panic(kind) == [panic |-> kind, val |-> <<>>]

----------------------------------------------------------------------------
(* Rust integer arithmetic *)

\* a + b on u16: panics on overflow with overflow checks, wraps without
AddU16(a, b, checks) ==
    IF a + b < 256 * 256 THEN NoPanic(a + b)
    ELSE IF checks THEN Panic("overflow")
    ELSE NoPanic((a + b) % (256 * 256))

\* a * 2 on u16
MulTwoU16(a, checks) ==
    IF a * 2 < 256 * 256 THEN NoPanic(a * 2)
    ELSE IF checks THEN Panic("overflow")
    ELSE NoPanic((a * 2) % (256 * 256))

\* (b as uN): the byte b as a wide number of w digits
FromByte(b, w) == [i \in 1..w |-> IF i = 1 THEN b ELSE 0]

ZeroWide(w) == [i \in 1..w |-> 0]

\* x << (8*k) on a wide number: the digits move up k places, the digits
\* moved past the width are lost (Rust's << never panics on lost bits)
ShlWide(x, k) == [i \in 1..Len(x) |-> IF i - k >= 1 THEN x[i - k] ELSE 0]

\* the digits of x + y from digit i on, given the carry into digit i,
\* followed by the carry out of the last digit
RECURSIVE AddFrom(_, _, _, _)
AddFrom(x, y, i, carry) ==
    IF i > Len(x) THEN <<carry>>
    ELSE <<(x[i] + y[i] + carry) % 256>>
            \o AddFrom(x, y, i + 1, (x[i] + y[i] + carry) \div 256)

\* x + y on wide numbers of the same width
AddWide(x, y, checks) ==
    LET all == AddFrom(x, y, 1, 0)
        sum == SubSeq(all, 1, Len(x))
    IN  IF all[Len(x) + 1] = 0 THEN NoPanic(sum)
        ELSE IF checks THEN Panic("overflow")
        ELSE NoPanic(sum)

----------------------------------------------------------------------------
(* utils.rs: ByteDecoder *)

\* for _ in 0..8 { tmp *= 2; }
RECURSIVE DoubleTimes(_, _, _)
DoubleTimes(tmp, n, checks) ==
    IF n = 0 THEN NoPanic(tmp)
    ELSE LET next == MulTwoU16(tmp, checks)
         IN  IF next.panic # "none" THEN next
             ELSE DoubleTimes(next.val, n - 1, checks)

\* mutant of bytesToU16: the two bytes taken in big-endian order
bytesToU16BigEndian(bytes, checks) ==
    IF Len(bytes) < 2 THEN Panic("index")
    ELSE LET tmp == DoubleTimes(bytes[1], 8, checks)
         IN  IF tmp.panic # "none" THEN tmp
             ELSE AddU16(tmp.val, bytes[2], checks)

bytesToU16(bytes, checks) ==
    IF Len(bytes) < 2 THEN Panic("index")
    ELSE LET first == bytes[2]
             second == bytes[1]
             tmp == DoubleTimes(first, 8, checks)
         IN  IF tmp.panic # "none" THEN tmp
             ELSE AddU16(tmp.val, second, checks)

bytesToU32(bytes, checks) ==
    IF Len(bytes) < 4 THEN Panic("index")
    ELSE LET first == bytes[4]
             second == bytes[3]
             third == bytes[2]
             fourth == bytes[1]
             s1 == AddWide(ShlWide(FromByte(first, 4), 3),
                           ShlWide(FromByte(second, 4), 2), checks)
             s2 == IF s1.panic # "none" THEN s1
                   ELSE AddWide(s1.val, ShlWide(FromByte(third, 4), 1), checks)
         IN  IF s2.panic # "none" THEN s2
             ELSE AddWide(s2.val, FromByte(fourth, 4), checks)

\* The loop of bytesToU64 from element i of `reversed`, with the values
\* res and shift have before the iteration.  shift is a u64: `shift -= 8`
\* below 8 panics with overflow checks and wraps to 2^64 + shift - 8
\* without; the model keeps the wrapped value as the negative number
\* shift - 8.  Without overflow checks `<<` masks its right operand to six
\* bits, and (2^64 + s) mod 64 = s mod 64.
RECURSIVE U64Loop(_, _, _, _, _)
U64Loop(reversed, i, res, shift, checks) ==
    IF i > Len(reversed) THEN NoPanic(res)
    ELSE IF shift < 8 /\ checks THEN Panic("overflow")
    ELSE LET shifted == shift - 8
             term == ShlWide(FromByte(reversed[i], 8), (shifted % 64) \div 8)
             sum == AddWide(res, term, checks)
         IN  IF sum.panic # "none" THEN sum
             ELSE U64Loop(reversed, i + 1, sum.val, shifted, checks)

\* mutant of bytesToU64: the slice is not reversed before the loop
bytesToU64NotReversed(bytes, checks) ==
    U64Loop(bytes, 1, ZeroWide(8), 64, checks)

bytesToU64(bytes, checks) ==
    LET reversed == Reverse(bytes)
    IN  U64Loop(reversed, 1, ZeroWide(8), 64, checks)

----------------------------------------------------------------------------
(* The specification of the ByteDecoder calls *)

\* byte values of the inputs of SpecBytes
ByteVals == {52, 255}

\* every sequence of up to MaxLen sample bytes
ByteInputs == SeqsUpTo(ByteVals, MaxLen)

\* every pair of bytes
PairInputs == {<<lo, hi>> : lo \in Byte, hi \in Byte}

\* The input of a call is drawn when the model starts; out is the result of
\* the function applied last (fn), "none" before the first call.
CallBytesToU16 ==
    /\ call' = [call EXCEPT !.fn = "bytesToU16",
                            !.out = bytesToU16(call.bytes, overflowChecks)]
    /\ UNCHANGED <<overflowChecks, host, gpuVars, netVars>>

CallBytesToU32 ==
    /\ call' = [call EXCEPT !.fn = "bytesToU32",
                            !.out = bytesToU32(call.bytes, overflowChecks)]
    /\ UNCHANGED <<overflowChecks, host, gpuVars, netVars>>

CallBytesToU64 ==
    /\ call' = [call EXCEPT !.fn = "bytesToU64",
                            !.out = bytesToU64(call.bytes, overflowChecks)]
    /\ UNCHANGED <<overflowChecks, host, gpuVars, netVars>>

LinuxHost == [sys |-> TRUE, proc |-> TRUE]
NoGpuFile == [status |-> "missing", data |-> <<>>]
NoGpuOut ==
    [called |-> FALSE, read |-> "none", bytes |-> <<>>, outcome |-> "NotCalled",
     panic |-> "none", metrics |-> <<>>, indexOps |-> 0]
Families == {"tcp", "udp", "tcp6", "udp6"}
NoNetFiles == [f \in Families |-> [status |-> "missing", text |-> <<>>]]
NoNetOut ==
    [called |-> FALSE, outcome |-> "NotCalled", panic |-> "none", routes |-> <<>>]

NoCall == [fn |-> "none", bytes |-> <<>>, out |-> Panic("none")]

\* the parts of the state a specification does not use
GpuAtRest == host = LinuxHost /\ gpuFile = NoGpuFile /\ gpuOut = NoGpuOut
NetAtRest == netFiles = NoNetFiles /\ netOut = NoNetOut

InitCall(inputs) ==
    /\ overflowChecks \in BOOLEAN
    /\ \E bytes \in inputs :
          call = [fn |-> "none", bytes |-> bytes, out |-> Panic("none")]
    /\ GpuAtRest
    /\ NetAtRest

\* the three decoders on every sequence of up to MaxLen sample bytes
InitBytes == InitCall(ByteInputs)

NextBytes == CallBytesToU16 \/ CallBytesToU32 \/ CallBytesToU64

SpecBytes == InitBytes /\ [][NextBytes]_vars

\* bytesToU16 on every pair of bytes
InitU16 == InitCall(PairInputs)

NextU16 == CallBytesToU16

SpecU16 == InitU16 /\ [][NextU16]_vars

----------------------------------------------------------------------------
(* Claims about the ByteDecoder *)

\* The value of the digits i..Len(d) of the wide number d, as a number,
\* modulo m (Horner's rule; m is below 2^16 so that no step leaves the
\* 32 bits of TLC's integers).
RECURSIVE WideModFrom(_, _, _)
WideModFrom(d, i, m) ==
    IF i > Len(d) THEN 0 ELSE (d[i] + 256 * WideModFrom(d, i + 1, m)) % m

WideMod(d, m) == WideModFrom(d, 1, m)

RECURSIVE Pow256Mod(_, _)
Pow256Mod(k, m) == IF k = 0 THEN 1 % m ELSE (256 * Pow256Mod(k - 1, m)) % m

\* (bytes[0] + bytes[1]*256 + ... + bytes[n-1]*256^(n-1)) modulo m
RECURSIVE SumMod(_, _, _)
SumMod(bytes, n, m) ==
    IF n = 0 THEN 0
    ELSE (SumMod(bytes, n - 1, m) + bytes[n] * Pow256Mod(n - 1, m)) % m

\* two primes below 2^16 and a power of two: a wide number of at most 8
\* digits is fixed by its digits, and the residues tie the digits to the sum
Moduli == {65521, 65519, 32768}

\* the wide number v of n digits is the little-endian value of bytes[0..n]
IsLittleEndianOf(v, bytes, n) ==
    /\ Len(v) = n
    /\ \A i \in 1..n : v[i] = bytes[i]
    /\ \A m \in Moduli : WideMod(v, m) = SumMod(bytes, n, m)

\* C1: for every pair of bytes (lo, hi), bytesToU16 of [lo, hi] returns
\* hi*256 + lo, a value in 0..65535, with no overflow in any step (no
\* overflow panic with overflow checks, no wrapped value without); and
\* [0x34, 0x12] gives 4660.
C1_U16LittleEndian ==
    (call.fn = "bytesToU16" /\ Len(call.bytes) = 2) =>
        /\ call.out.panic = "none"
        /\ call.out.val = call.bytes[2] * 256 + call.bytes[1]
        /\ call.out.val \in 0..65535
        /\ (call.bytes = <<52, 18>> => call.out.val = 4660)

C1_Witness ==
    /\ call.fn = "bytesToU16"
    /\ call.bytes = <<255, 255>>
    /\ overflowChecks
    /\ call.out = NoPanic(65535)

\* C2: on exactly 4 bytes bytesToU32 returns the sum of bytes[i]*256^i, and
\* on exactly 8 bytes bytesToU64 returns the sum of bytes[i]*256^i (least
\* significant byte first), without overflow.
C2_WideLittleEndian ==
    /\ (call.fn = "bytesToU32" /\ Len(call.bytes) = 4) =>
            /\ call.out.panic = "none"
            /\ IsLittleEndianOf(call.out.val, call.bytes, 4)
    /\ (call.fn = "bytesToU64" /\ Len(call.bytes) = 8) =>
            /\ call.out.panic = "none"
            /\ IsLittleEndianOf(call.out.val, call.bytes, 8)

C2_Witness ==
    /\ call.fn = "bytesToU64"
    /\ call.bytes = <<52, 255, 255, 255, 52, 52, 52, 255>>
    /\ overflowChecks
    /\ call.out = NoPanic(<<52, 255, 255, 255, 52, 52, 52, 255>>)

\* C3: on a sequence of at least N bytes, bytesToU16 (N = 2), bytesToU32
\* (N = 4) and bytesToU64 (N = 8) return the little-endian value of the first
\* N bytes: the bytes after them neither change the result nor cause a panic.
C3_LongerInputs ==
    /\ (call.fn = "bytesToU16" /\ Len(call.bytes) >= 2) =>
            call.out = NoPanic(call.bytes[2] * 256 + call.bytes[1])
    /\ (call.fn = "bytesToU32" /\ Len(call.bytes) >= 4) =>
            /\ call.out.panic = "none"
            /\ IsLittleEndianOf(call.out.val, call.bytes, 4)
    /\ (call.fn = "bytesToU64" /\ Len(call.bytes) >= 8) =>
            /\ call.out.panic = "none"
            /\ IsLittleEndianOf(call.out.val, call.bytes, 8)

\* what holds of the code: C3 for bytesToU16 and bytesToU32 only
C3_LongerInputsU16U32 ==
    /\ (call.fn = "bytesToU16" /\ Len(call.bytes) >= 2) =>
            call.out = NoPanic(call.bytes[2] * 256 + call.bytes[1])
    /\ (call.fn = "bytesToU32" /\ Len(call.bytes) >= 4) =>
            /\ call.out.panic = "none"
            /\ IsLittleEndianOf(call.out.val, call.bytes, 4)

----------------------------------------------------------------------------
(* utils.rs: linuxCheck.  gpu.rs: gpuMetrics *)

\* panics unless /sys and /proc both exist
linuxCheck(h) ==
    IF ~h.sys \/ ~h.proc THEN Panic("platform") ELSE NoPanic(<<>>)

\* fs::read(path): Err when the file is missing or cannot be read
FsRead(file) ==
    IF file.status = "ok" THEN [err |-> FALSE, bytes |-> file.data]
    ELSE [err |-> TRUE, bytes |-> <<>>]

\* bytes[lo..hi] (Rust indices, hi exclusive) panics unless hi <= len
SliceInRange(bytes, lo, hi) == lo <= hi /\ hi <= Len(bytes)

Slice(bytes, lo, hi) == SubSeq(bytes, lo + 1, hi)

\* a field read at one of two payload offsets, chosen by the content byte
Versioned(name, legacy, current) ==
    [name |-> name, versioned |-> TRUE, legacy |-> legacy, offset |-> current,
     width |-> 2]

\* a field read at one payload offset
Fixed(name, offset, width) ==
    [name |-> name, versioned |-> FALSE, legacy |-> offset, offset |-> offset,
     width |-> width]

\* the fields of the GpuMetrics literal, in the order they are evaluated
GpuFields ==
    << Versioned("temperatureEdge", 8, 0),
       Versioned("temperatureHotspot", 10, 2),
       Versioned("temperatureMem", 12, 4),
       Versioned("temperatureVrgfx", 14, 6),
       Versioned("temperatureVrsoc", 16, 8),
       Versioned("temperatureVrmem", 18, 10),
       Versioned("averageSocketPower", 26, 18),
       Fixed("averageGfxclkFrequency", 36, 2),
       Fixed("averageSockclkFrequency", 38, 2),
       Fixed("averageUclkFrequency", 40, 2),
       Fixed("currentGfxclk", 50, 2),
       Fixed("currentSockclk", 52, 2),
       Fixed("currentUclk", 54, 2),
       Fixed("currentVclk0", 56, 2),
       Fixed("currentDclk0", 58, 2),
       Fixed("currentVclk1", 60, 2),
       Fixed("currentDclk1", 62, 2),
       Fixed("throttleStatus", 64, 4),
       Fixed("currentFanSpeed", 68, 2),
       Fixed("pcieLinkWidth", 70, 2),
       Fixed("pcieLinkSpeed", 72, 2) >>

\* mutant of OffsetOf: the legacy offsets are taken for content 1, not 0
OffsetOfLegacyForOne(f, content) ==
    IF f.versioned /\ content = 1 THEN f.legacy ELSE f.offset

\* mutant of OffsetOf: with content 0 every field is read 8 bytes further
OffsetOfAllShifted(f, content) ==
    IF content = 0 THEN (IF f.versioned THEN f.legacy ELSE f.offset + 8)
    ELSE f.offset

\* match content { 0 => legacy offset, _ => current offset }
OffsetOf(f, content) ==
    IF f.versioned /\ content = 0 THEN f.legacy ELSE f.offset

\* mutant of FormatSupported: every format from 1 on is decoded
FormatSupportedFromOne(format) == format >= 1

\* if format != 1 { return None; }
FormatSupported(format) == format = 1

GpuOutcome(read, bytes, outcome, panic, metrics, indexOps) ==
    [called |-> TRUE, read |-> read, bytes |-> bytes, outcome |-> outcome,
     panic |-> panic, metrics |-> metrics, indexOps |-> indexOps]

\* The fields i.. of the GpuMetrics literal: each one slices the payload and
\* decodes the slice; the first slice past the end of the payload panics.
\* acc holds the fields decoded so far, ops counts the index and slice
\* expressions evaluated.
RECURSIVE DecodeFields(_, _, _, _, _, _)
DecodeFields(payload, content, i, acc, ops, checks) ==
    IF i > Len(GpuFields) THEN [panic |-> "none", metrics |-> acc, ops |-> ops]
    ELSE LET f == GpuFields[i]
             lo == OffsetOf(f, content)
             hi == lo + f.width
         IN  IF ~SliceInRange(payload, lo, hi)
             THEN [panic |-> "index", metrics |-> <<>>, ops |-> ops + 1]
             ELSE LET v == IF f.width = 2
                           THEN bytesToU16(Slice(payload, lo, hi), checks)
                           ELSE bytesToU32(Slice(payload, lo, hi), checks)
                  IN  IF v.panic # "none"
                      THEN [panic |-> v.panic, metrics |-> <<>>, ops |-> ops + 1]
                      ELSE DecodeFields(payload, content, i + 1,
                                        (f.name :> v.val) @@ acc, ops + 1, checks)

\* mutant of DecodeGpuBuffer: a buffer without the 4 header bytes, or with a
\* payload shorter than the record, is reported as unavailable
DecodeGpuBufferLengthChecked(bytes, checks) ==
    IF Len(bytes) < 4 THEN GpuOutcome("ok", bytes, "None", "none", <<>>, 0)
    ELSE LET format == bytes[3]
             content == bytes[4]
             payload == Slice(bytes, 4, Len(bytes))
         IN  IF ~FormatSupported(format) \/ Len(payload) < 74
             THEN GpuOutcome("ok", bytes, "None", "none", <<>>, 3)
             ELSE LET d == DecodeFields(payload, content, 1, <<>>, 3, checks)
                  IN  IF d.panic # "none"
                      THEN GpuOutcome("ok", bytes, "Panic", d.panic, <<>>, d.ops)
                      ELSE GpuOutcome("ok", bytes, "Some", "none", d.metrics, d.ops)

\* gpuMetrics from `let format = bytes[2]` on
DecodeGpuBuffer(bytes, checks) ==
    IF Len(bytes) < 3 THEN GpuOutcome("ok", bytes, "Panic", "index", <<>>, 1)
    ELSE IF Len(bytes) < 4 THEN GpuOutcome("ok", bytes, "Panic", "index", <<>>, 2)
    ELSE LET format == bytes[3]
             content == bytes[4]
             payload == Slice(bytes, 4, Len(bytes))
         IN  IF ~FormatSupported(format)
             THEN GpuOutcome("ok", bytes, "None", "none", <<>>, 3)
             ELSE LET d == DecodeFields(payload, content, 1, <<>>, 3, checks)
                  IN  IF d.panic # "none"
                      THEN GpuOutcome("ok", bytes, "Panic", d.panic, <<>>, d.ops)
                      ELSE GpuOutcome("ok", bytes, "Some", "none", d.metrics, d.ops)

\* mutant of GpuReadError: the error flag is not tested and decoding goes on
\* with the empty buffer
GpuReadErrorIgnored ==
    [DecodeGpuBuffer(<<>>, TRUE) EXCEPT !.read = "err"]

\* if error { return None; }
GpuReadError == GpuOutcome("err", <<>>, "None", "none", <<>>, 0)

gpuMetrics(h, file, checks) ==
    IF linuxCheck(h).panic # "none"
    THEN GpuOutcome("none", <<>>, "Panic", "platform", <<>>, 0)
    ELSE LET filePipe == FsRead(file)
         IN  IF filePipe.err THEN GpuReadError
             ELSE DecodeGpuBuffer(filePipe.bytes, checks)

----------------------------------------------------------------------------
(* The specification of gpuMetrics *)

Hosts == [sys : BOOLEAN, proc : BOOLEAN]

\* sentinel bytes, distinct at every offset of a buffer
Sentinel(seed, k) == IF seed = 1 THEN (7 * k + 3) % 256 ELSE 255 - k

GpuSeeds == {1, 2}

\* a buffer of len bytes with the given format and content bytes
GpuBuffer(len, format, content, seed) ==
    [i \in 1..len |-> IF i = 3 THEN format
                      ELSE IF i = 4 THEN content
                      ELSE Sentinel(seed, i - 1)]

\* sample values of the two header bytes
FormatVals == {0, 1, 2, 255}
ContentVals == {0, 1, 2, 255}

\* the shortest buffer that holds every field: 4 header bytes and the
\* payload up to the end of pcieLinkSpeed
GpuRecordLen == 4 + 74

\* every length with sample headers; every content byte on the buffers long
\* enough to decode; every format byte on the shortest buffer with a header
\* and on the shortest buffer that decodes
GpuBuffers ==
    {GpuBuffer(len, fm, co, seed) :
        len \in 0..MaxGpuLen, fm \in FormatVals, co \in ContentVals, seed \in GpuSeeds}
    \cup {GpuBuffer(len, fm, co, seed) :
        len \in GpuRecordLen..MaxGpuLen, fm \in FormatVals, co \in Byte, seed \in GpuSeeds}
    \cup {GpuBuffer(len, fm, co, seed) :
        len \in {4, GpuRecordLen}, fm \in Byte, co \in ContentVals, seed \in GpuSeeds}

GpuFiles ==
    {NoGpuFile}
    \cup {[status |-> "ok", data |-> b] : b \in GpuBuffers}
    \cup {[status |-> "denied", data |-> GpuBuffer(len, 1, 0, 1)] : len \in {0, GpuRecordLen}}

GpuMetricsCall ==
    /\ gpuOut' = gpuMetrics(host, gpuFile, overflowChecks)
    /\ UNCHANGED <<overflowChecks, call, host, gpuFile, netVars>>

\* without /sys there is no gpu_metrics file
InitGpu ==
    /\ overflowChecks \in BOOLEAN
    /\ call = NoCall
    /\ host \in Hosts
    /\ gpuFile \in (IF host.sys THEN GpuFiles ELSE {NoGpuFile})
    /\ gpuOut = NoGpuOut
    /\ NetAtRest

NextGpu == GpuMetricsCall

SpecGpu == InitGpu /\ [][NextGpu]_vars

----------------------------------------------------------------------------
(* Claims about gpuMetrics *)

\* the little-endian u16 at payload offset off of the buffer bytes (the
\* payload starts at byte 4 of the buffer)
PayloadU16(bytes, off) == bytes[4 + off + 1] + 256 * bytes[4 + off + 2]

\* C4: whenever the buffer was read and its format byte (index 2) is not 1,
\* gpuMetrics returns None, never a record and never a panic, for every
\* content byte and every payload (of any length, the empty one included)
\* after the 4 header bytes.
C4_UnsupportedFormatIsNone ==
    (/\ gpuOut.called
     /\ gpuOut.read = "ok"
     /\ Len(gpuOut.bytes) >= 4
     /\ gpuOut.bytes[3] # 1) => gpuOut.outcome = "None"

C4_Witness ==
    /\ gpuOut.called
    /\ gpuOut.read = "ok"
    /\ Len(gpuOut.bytes) = GpuRecordLen
    /\ gpuOut.bytes[3] = 2
    /\ gpuOut.bytes[4] = 0
    /\ gpuOut.outcome = "None"

\* C5: with format byte 1, each of the seven version-dependent fields is the
\* little-endian u16 at its legacy payload offset (8, 10, 12, 14, 16, 18, 26)
\* when the content byte (index 3) is 0 and at its current payload offset
\* (0, 2, 4, 6, 8, 10, 18) for every other value of that byte.
C5_Offsets ==
    [temperatureEdge |-> <<8, 0>>, temperatureHotspot |-> <<10, 2>>,
     temperatureMem |-> <<12, 4>>, temperatureVrgfx |-> <<14, 6>>,
     temperatureVrsoc |-> <<16, 8>>, temperatureVrmem |-> <<18, 10>>,
     averageSocketPower |-> <<26, 18>>]

C5_VersionedOffsets ==
    (gpuOut.called /\ gpuOut.outcome = "Some") =>
        /\ gpuOut.bytes[3] = 1
        /\ \A name \in DOMAIN C5_Offsets :
              gpuOut.metrics[name] =
                  PayloadU16(gpuOut.bytes,
                             IF gpuOut.bytes[4] = 0 THEN C5_Offsets[name][1]
                             ELSE C5_Offsets[name][2])

C5_Witness ==
    /\ gpuOut.called
    /\ gpuOut.outcome = "Some"
    /\ gpuOut.bytes[4] = 0
    /\ gpuOut.metrics["temperatureEdge"] = PayloadU16(gpuOut.bytes, 8)
    /\ gpuOut.metrics["temperatureEdge"] # PayloadU16(gpuOut.bytes, 0)

\* C6: with format byte 1, the version-independent fields are decoded from
\* one fixed payload offset each, so that two buffers that differ only in
\* the content byte yield equal values for all of these fields.
C6_Offsets ==
    [averageGfxclkFrequency |-> 36, averageSockclkFrequency |-> 38,
     averageUclkFrequency |-> 40, currentGfxclk |-> 50, currentSockclk |-> 52,
     currentUclk |-> 54, currentVclk0 |-> 56, currentDclk0 |-> 58,
     currentVclk1 |-> 60, currentDclk1 |-> 62, currentFanSpeed |-> 68,
     pcieLinkWidth |-> 70, pcieLinkSpeed |-> 72]

C6_FixedOffsets ==
    (gpuOut.called /\ gpuOut.outcome = "Some") =>
        /\ \A name \in DOMAIN C6_Offsets :
              gpuOut.metrics[name] = PayloadU16(gpuOut.bytes, C6_Offsets[name])
        /\ IsLittleEndianOf(gpuOut.metrics["throttleStatus"],
                            Slice(gpuOut.bytes, 4 + 64, 4 + 68), 4)
        /\ \A co \in ContentVals :
              LET other == gpuMetrics(host, [gpuFile EXCEPT !.data[4] = co],
                                      overflowChecks)
              IN  /\ other.outcome = "Some"
                  /\ \A name \in DOMAIN C6_Offsets \cup {"throttleStatus"} :
                        other.metrics[name] = gpuOut.metrics[name]

C6_Witness ==
    /\ gpuOut.called
    /\ gpuOut.outcome = "Some"
    /\ gpuOut.bytes[4] = 0
    /\ gpuOut.metrics["currentFanSpeed"] = PayloadU16(gpuOut.bytes, 68)
    /\ gpuOut.metrics["throttleStatus"] = Slice(gpuOut.bytes, 4 + 64, 4 + 68)

\* C7: when the read of the gpu_metrics source fails (the file is missing or
\* cannot be read), gpuMetrics returns None, with no panic and without
\* indexing any byte of a buffer.
C7_ReadErrorIsNone ==
    (gpuOut.called /\ gpuOut.read = "err") =>
        /\ gpuOut.outcome = "None"
        /\ gpuOut.panic = "none"
        /\ gpuOut.indexOps = 0

C7_Witness ==
    /\ gpuOut.called
    /\ gpuFile.status = "missing"
    /\ gpuOut.read = "err"
    /\ gpuOut.outcome = "None"
    /\ gpuOut.indexOps = 0

\* the read fails for a missing and for an unreadable file alike
C7_WitnessDenied ==
    /\ gpuOut.called
    /\ gpuFile.status = "denied"
    /\ Len(gpuFile.data) = GpuRecordLen
    /\ gpuOut.read = "err"
    /\ gpuOut.outcome = "None"

----------------------------------------------------------------------------
(* Rust strings: a String is a sequence of one-character strings *)

HexDigits == <<"0", "1", "2", "3", "4", "5", "6", "7", "8", "9",
               "A", "B", "C", "D", "E", "F">>
LowerHexDigits == <<"0", "1", "2", "3", "4", "5", "6", "7", "8", "9",
                    "a", "b", "c", "d", "e", "f">>

\* char::to_digit(16): the value of a hex digit of either case, -1 for any
\* other character
DigitOf(c) ==
    IF \E i \in 1..16 : HexDigits[i] = c
    THEN (CHOOSE i \in 1..16 : HexDigits[i] = c) - 1
    ELSE IF \E i \in 1..16 : LowerHexDigits[i] = c
    THEN (CHOOSE i \in 1..16 : LowerHexDigits[i] = c) - 1
    ELSE -1

\* the value of the hex digits s[1..n]
RECURSIVE HexValue(_, _)
HexValue(s, n) == IF n = 0 THEN 0 ELSE HexValue(s, n - 1) * 16 + DigitOf(s[n])

\* i64::from_str_radix(s, 16): an optional sign, then at least one hex
\* digit and nothing else.  (The strings of the model have at most 7
\* digits, so the value fits TLC's integers and i64 never overflows.)
FromStrRadix16(s) ==
    LET signed == Len(s) > 0 /\ s[1] \in {"+", "-"}
        digits == IF signed THEN Tail(s) ELSE s
    IN  IF Len(digits) = 0 \/ \E i \in 1..Len(digits) : DigitOf(digits[i]) < 0
        THEN [ok |-> FALSE, val |-> 0]
        ELSE [ok |-> TRUE,
              val |-> IF signed /\ s[1] = "-" THEN 0 - HexValue(digits, Len(digits))
                      ELSE HexValue(digits, Len(digits))]

\* the decimal digits of n >= 0
RECURSIVE NatToString(_)
NatToString(n) ==
    IF n < 10 THEN <<HexDigits[n + 1]>>
    ELSE Append(NatToString(n \div 10), HexDigits[(n % 10) + 1])

\* i64::to_string
I64ToString(n) == IF n < 0 THEN <<"-">> \o NatToString(0 - n) ELSE NatToString(n)

\* [String]::join(separator)
RECURSIVE Join(_, _)
Join(chunks, separator) ==
    IF Len(chunks) = 0 THEN <<>>
    ELSE IF Len(chunks) = 1 THEN chunks[1]
    ELSE chunks[1] \o separator \o Join(Tail(chunks), separator)

\* str::contains(c)
Contains(s, c) == \E i \in 1..Len(s) : s[i] = c

\* str::split(c): the pieces of s between the occurrences of the character
\* c; an empty piece between two adjacent occurrences, one piece (s itself)
\* when c does not occur
RECURSIVE SplitOn(_, _)
SplitOn(s, c) ==
    IF ~Contains(s, c) THEN <<s>>
    ELSE LET k == CHOOSE i \in 1..Len(s) : s[i] = c /\ \A j \in 1..(i - 1) : s[j] # c
         IN  <<SubSeq(s, 1, k - 1)>> \o SplitOn(SubSeq(s, k + 1, Len(s)), c)

WhiteSpace == {" ", "\t", "\n", "\r"}

\* the first position from i on, and the last position up to i, of a
\* character of s that is not white space (Len(s) + 1 and 0 when none is)
RECURSIVE TrimStart(_, _)
TrimStart(s, i) ==
    IF i > Len(s) \/ s[i] \notin WhiteSpace THEN i ELSE TrimStart(s, i + 1)

RECURSIVE TrimEnd(_, _)
TrimEnd(s, i) ==
    IF i < 1 \/ s[i] \notin WhiteSpace THEN i ELSE TrimEnd(s, i - 1)

\* str::trim(): s without its leading and trailing white space
Trim(s) == SubSeq(s, TrimStart(s, 1), TrimEnd(s, Len(s)))

----------------------------------------------------------------------------
(* network.rs: bytesToAddress, bytesToPort *)

\* The loop of bytesToAddress from index on (a Rust index): the two
\* characters at index are parsed and pushed.  &address[index..index+2]
\* panics when only one character is left.
RECURSIVE AddressChunks(_, _, _)
AddressChunks(address, index, chunks) ==
    IF index >= Len(address) THEN NoPanic(chunks)
    ELSE IF index + 2 > Len(address) THEN Panic("index")
    ELSE LET parsed == FromStrRadix16(SubSeq(address, index + 1, index + 2))
         IN  IF ~parsed.ok THEN Panic("parse")
             ELSE AddressChunks(address, index + 2,
                                Append(chunks, I64ToString(parsed.val)))

\* mutant of bytesToAddress: the chunks are not reversed
bytesToAddressNotReversed(address, separator) ==
    LET chunks == AddressChunks(address, 0, <<>>)
    IN  IF chunks.panic # "none" THEN chunks
        ELSE NoPanic(Join(chunks.val, separator))

bytesToAddress(address, separator) ==
    LET chunks == AddressChunks(address, 0, <<>>)
    IN  IF chunks.panic # "none" THEN chunks
        ELSE NoPanic(Join(Reverse(chunks.val), separator))

\* (x as u16) << 8: the bits moved past bit 15 are lost
ShlEightU16(x) == (x * 256) % (256 * 256)

\* v as u16 for an i64 v
AsU16(v) == v % (256 * 256)

\* mutant of bytesToPort: the first half taken as the high byte
bytesToPortBigEndian(port, checks) ==
    IF Len(port) < 2 THEN Panic("index")
    ELSE LET msb == FromStrRadix16(SubSeq(port, 1, 2))
             lsb == FromStrRadix16(SubSeq(port, 3, Len(port)))
         IN  IF ~msb.ok \/ ~lsb.ok THEN Panic("parse")
             ELSE AddU16(ShlEightU16(AsU16(msb.val)), AsU16(lsb.val), checks)

\* port.split_at(2) panics on a string of fewer than 2 characters
bytesToPort(port, checks) ==
    IF Len(port) < 2 THEN Panic("index")
    ELSE LET LSB == SubSeq(port, 1, 2)
             MSB == SubSeq(port, 3, Len(port))
             msb == FromStrRadix16(MSB)
             lsb == FromStrRadix16(LSB)
         IN  IF ~msb.ok \/ ~lsb.ok THEN Panic("parse")
             ELSE AddU16(ShlEightU16(AsU16(msb.val)), AsU16(lsb.val), checks)

----------------------------------------------------------------------------
(* The specifications of the NetworkAddressDecoder calls *)

\* the two hex digits the kernel prints for a byte (%02X)
HexPair(b) == <<HexDigits[(b \div 16) + 1], HexDigits[(b % 16) + 1]>>

\* the hex digits the kernel prints for a sequence of bytes
RECURSIVE HexOf(_)
HexOf(bs) == IF Len(bs) = 0 THEN <<>> ELSE HexPair(bs[1]) \o HexOf(Tail(bs))

\* sample octets of the addresses
OctetVals == {0, 1, 10, 127, 168, 192, 255}

\* sample IPv6 addresses, as the 16 bytes the kernel prints
V6Bytes ==
    { [i \in 1..16 |-> 0],
      [i \in 1..16 |-> IF i = 16 THEN 1 ELSE 0],
      <<0, 0, 0, 0, 0, 0, 0, 0, 255, 255, 0, 0, 1, 0, 0, 127>>,
      <<0, 0, 128, 254, 0, 0, 0, 0, 255, 0, 84, 80, 182, 173, 29, 254>> }

\* well-formed hex strings: up to MaxOctets sample byte pairs in upper case,
\* some of them in lower case too, and the sample IPv6 addresses
HexStrings ==
    {HexOf(bs) : bs \in SeqsUpTo(OctetVals, MaxOctets)}
    \cup {<<"0", "a">>, <<"f", "f">>, <<"0", "1", "0", "1", "a", "8", "c", "0">>}
    \cup {HexOf(bs) : bs \in V6Bytes}

\* strings bytesToAddress panics on: an odd length, a character that is no
\* hex digit
BadHexStrings ==
    {<<"0">>, <<"0", "1", "0">>, <<"G", "0">>, <<"0", "1", "Z", "Z">>, <<" ", "1">>}

AddressCalls ==
    [fn : {"none"}, text : HexStrings \cup BadHexStrings, separator : {<<".">>, <<":">>},
     out : {Panic("none")}]

\* every port field of four upper-case hex digits
PortFields ==
    {HexPair(lo) \o HexPair(hi) : lo \in Byte, hi \in Byte}

PortCalls ==
    [fn : {"none"}, text : PortFields \cup {<<>>, <<"5">>, <<"5", "0">>, <<"5", "0", "G", "0">>},
     separator : {<<>>}, out : {Panic("none")}]

CallBytesToAddress ==
    /\ call' = [call EXCEPT !.fn = "bytesToAddress",
                            !.out = bytesToAddress(call.text, call.separator)]
    /\ UNCHANGED <<overflowChecks, host, gpuVars, netVars>>

CallBytesToPort ==
    /\ call' = [call EXCEPT !.fn = "bytesToPort",
                            !.out = bytesToPort(call.text, overflowChecks)]
    /\ UNCHANGED <<overflowChecks, host, gpuVars, netVars>>

InitAddr ==
    /\ overflowChecks \in BOOLEAN
    /\ call \in AddressCalls
    /\ GpuAtRest
    /\ NetAtRest

NextAddr == CallBytesToAddress

SpecAddr == InitAddr /\ [][NextAddr]_vars

InitPort ==
    /\ overflowChecks \in BOOLEAN
    /\ call \in PortCalls
    /\ GpuAtRest
    /\ NetAtRest

NextPort == CallBytesToPort

SpecPort == InitPort /\ [][NextPort]_vars

----------------------------------------------------------------------------
(* Claims about the NetworkAddressDecoder *)

IsHexString(s) == \A i \in 1..Len(s) : DigitOf(s[i]) >= 0

\* the value of hex digit pair i (from 0) of s
PairValue(s, i) == DigitOf(s[2 * i + 1]) * 16 + DigitOf(s[2 * i + 2])

DecimalDigits == {"0", "1", "2", "3", "4", "5", "6", "7", "8", "9"}

\* the value of the decimal digits s[1..n]
RECURSIVE DecimalValue(_, _)
DecimalValue(s, n) ==
    IF n = 0 THEN 0 ELSE DecimalValue(s, n - 1) * 10 + DigitOf(s[n])

\* s is the decimal numeral of v: decimal digits only, no leading zero
IsDecimalOf(s, v) ==
    /\ Len(s) \in 1..3
    /\ \A i \in 1..Len(s) : s[i] \in DecimalDigits
    /\ Len(s) > 1 => s[1] # "0"
    /\ DecimalValue(s, Len(s)) = v

\* C8: for every hex string of 2n hex digits bytesToAddress returns exactly n
\* groups joined by the separator, output group i being the value of input
\* digit pair n-1-i; hence decoding the reversed hex-pair encoding of an
\* octet list gives that list back, and "0101A8C0" with "." gives
\* "192.168.1.1".
C8_AddressReversed ==
    (/\ call.fn = "bytesToAddress"
     /\ IsHexString(call.text)
     /\ Len(call.text) % 2 = 0) =>
        LET n == Len(call.text) \div 2
            groups == IF n = 0 THEN <<>> ELSE SplitOn(call.out.val, call.separator[1])
            octets == [i \in 1..n |-> DecimalValue(groups[i], Len(groups[i]))]
        IN  /\ call.out.panic = "none"
            /\ n = 0 => call.out.val = <<>>
            /\ Len(groups) = n
            /\ \A i \in 0..(n - 1) :
                  IsDecimalOf(groups[i + 1], PairValue(call.text, n - 1 - i))
            /\ HexOf(Reverse(octets)) = [i \in 1..(2 * n) |->
                  HexDigits[DigitOf(call.text[i]) + 1]]
            /\ (call.text = <<"0", "1", "0", "1", "A", "8", "C", "0">>
                    /\ call.separator = <<".">>)
               => call.out.val = <<"1", "9", "2", ".", "1", "6", "8", ".", "1", ".", "1">>

C8_Witness ==
    /\ call.fn = "bytesToAddress"
    /\ call.text = <<"0", "1", "0", "1", "A", "8", "C", "0">>
    /\ call.separator = <<".">>
    /\ call.out = NoPanic(<<"1", "9", "2", ".", "1", "6", "8", ".", "1", ".", "1">>)

\* C10: for every port field of four hex digits bytesToPort returns
\* high*256 + low, low being the value of the first two digits and high the
\* value of the last two; the result is in 0..65535, no step overflows, and
\* "5000" gives 80.
C10_PortByteSwapped ==
    (/\ call.fn = "bytesToPort"
     /\ Len(call.text) = 4
     /\ IsHexString(call.text)) =>
        /\ call.out.panic = "none"
        /\ call.out.val = PairValue(call.text, 1) * 256 + PairValue(call.text, 0)
        /\ call.out.val \in 0..65535
        /\ (call.text = <<"5", "0", "0", "0">> => call.out.val = 80)

C10_Witness ==
    /\ call.fn = "bytesToPort"
    /\ call.text = <<"5", "0", "0", "0">>
    /\ overflowChecks
    /\ call.out = NoPanic(80)

----------------------------------------------------------------------------
(* utils.rs: readFile.  network.rs: RouteStatus::fromTcpCode, getRoutes,
   networkRoutes *)

\* the trimmed content of the file, the empty string when it cannot be
\* opened or read
readFile(file) == IF file.status = "ok" THEN Trim(file.text) ELSE <<>>

\* fromTcpCode with the code "0B" decoded as the code "0A" is
fromTcpCodeClosingAsListening(code) ==
    IF code = <<"0", "1">> THEN "ESTABLISHED"
    ELSE IF code = <<"0", "2">> THEN "SYN_SENT"
    ELSE IF code = <<"0", "3">> THEN "SYN_RECEIVED"
    ELSE IF code = <<"0", "4">> THEN "FIN_WAIT1"
    ELSE IF code = <<"0", "5">> THEN "FIN_WAIT2"
    ELSE IF code = <<"0", "6">> THEN "TIME_WAIT"
    ELSE IF code = <<"0", "7">> THEN "CLOSED"
    ELSE IF code = <<"0", "8">> THEN "CLOSE_WAIT"
    ELSE IF code = <<"0", "9">> THEN "LAST_ACKNOWLEDGMENT"
    ELSE IF code \in {<<"0", "A">>, <<"0", "B">>} THEN "LISTENING"
    ELSE "NEW_SYN_RECEIVED"

fromTcpCode(code) ==
    IF code = <<"0", "1">> THEN "ESTABLISHED"
    ELSE IF code = <<"0", "2">> THEN "SYN_SENT"
    ELSE IF code = <<"0", "3">> THEN "SYN_RECEIVED"
    ELSE IF code = <<"0", "4">> THEN "FIN_WAIT1"
    ELSE IF code = <<"0", "5">> THEN "FIN_WAIT2"
    ELSE IF code = <<"0", "6">> THEN "TIME_WAIT"
    ELSE IF code = <<"0", "7">> THEN "CLOSED"
    ELSE IF code = <<"0", "8">> THEN "CLOSE_WAIT"
    ELSE IF code = <<"0", "9">> THEN "LAST_ACKNOWLEDGMENT"
    ELSE IF code = <<"0", "A">> THEN "LISTENING"
    ELSE IF code = <<"0", "B">> THEN "CLOSING"
    ELSE "NEW_SYN_RECEIVED"

\* mutant of RouteStatusOf: the state code is decoded for every family
RouteStatusOfDecoded(routeType, statusCode) == fromTcpCode(statusCode)

\* the status of a route: decoded from the state code for TCP and TCP6,
\* LISTENING for UDP and UDP6
RouteStatusOf(routeType, statusCode) ==
    IF routeType \in {"TCP", "TCP6"} THEN fromTcpCode(statusCode) ELSE "LISTENING"

\* address:port decoded as in lines 369-372 (and 374-376): the address is
\* decoded before the port is indexed
Endpoint(field, separator, checks) ==
    LET parts == SplitOn(field, ":")
        address == bytesToAddress(parts[1], separator)
    IN  IF address.panic # "none" THEN address
        ELSE IF Len(parts) < 2 THEN Panic("index")
        ELSE LET port == bytesToPort(parts[2], checks)
             IN  IF port.panic # "none" THEN port
                 ELSE NoPanic([address |-> address.val, port |-> port.val])

\* the body of the loop of getRoutes for a line that contains ':'
RouteOfLine(line, separator, routeType, checks) ==
    LET splittedLine == SplitOn(Trim(line), " ")
    IN  IF Len(splittedLine) < 2 THEN Panic("index")
        ELSE LET local == Endpoint(splittedLine[2], separator, checks)
             IN  IF local.panic # "none" THEN local
                 ELSE IF Len(splittedLine) < 3 THEN Panic("index")
                 ELSE LET remote == Endpoint(splittedLine[3], separator, checks)
                      IN  IF remote.panic # "none" THEN remote
                          ELSE IF Len(splittedLine) < 4 THEN Panic("index")
                          ELSE LET statusCode == Trim(splittedLine[4])
                                   status == RouteStatusOf(routeType, statusCode)
                               IN  NoPanic([routeType |-> routeType,
                                            localAddress |-> local.val.address,
                                            localPort |-> local.val.port,
                                            remoteAddress |-> remote.val.address,
                                            remotePort |-> remote.val.port,
                                            routeStatus |-> status])

RECURSIVE RoutesFrom(_, _, _, _, _, _)

\* mutant of PushRoute: a line that cannot be decoded is skipped
PushRouteOrSkip(lines, i, routes, separator, routeType, checks, route) ==
    IF route.panic # "none"
    THEN RoutesFrom(lines, i + 1, routes, separator, routeType, checks)
    ELSE RoutesFrom(lines, i + 1, Append(routes, route.val), separator, routeType,
                    checks)

\* routes.push(NetworkRoute {...}) and the lines after line i; a panic in
\* the decoding of line i unwinds out of getRoutes
PushRoute(lines, i, routes, separator, routeType, checks, route) ==
    IF route.panic # "none" THEN route
    ELSE RoutesFrom(lines, i + 1, Append(routes, route.val), separator, routeType,
                    checks)

\* the loop of getRoutes from line i on
RoutesFrom(lines, i, routes, separator, routeType, checks) ==
    IF i > Len(lines) THEN NoPanic(routes)
    ELSE IF ~Contains(lines[i], ":")
    THEN RoutesFrom(lines, i + 1, routes, separator, routeType, checks)
    ELSE PushRoute(lines, i, routes, separator, routeType, checks,
                   RouteOfLine(lines[i], separator, routeType, checks))

\* mutant of getRoutes: the first line is taken for the header and skipped
getRoutesAfterFirstLine(file, separator, routeType, checks) ==
    RoutesFrom(SplitOn(file, "\n"), 2, <<>>, separator, routeType, checks)

getRoutes(file, separator, routeType, checks) ==
    RoutesFrom(SplitOn(file, "\n"), 1, <<>>, separator, routeType, checks)

\* mutant of RouteFiles: the UDP files are read before the TCP files
RouteFilesUdpFirst ==
    << [file |-> "udp", separator |-> <<".">>, routeType |-> "UDP"],
       [file |-> "tcp", separator |-> <<".">>, routeType |-> "TCP"],
       [file |-> "udp6", separator |-> <<":">>, routeType |-> "UDP6"],
       [file |-> "tcp6", separator |-> <<":">>, routeType |-> "TCP6"] >>

\* the four route files in the order networkRoutes reads them
RouteFiles ==
    << [file |-> "tcp", separator |-> <<".">>, routeType |-> "TCP"],
       [file |-> "udp", separator |-> <<".">>, routeType |-> "UDP"],
       [file |-> "tcp6", separator |-> <<":">>, routeType |-> "TCP6"],
       [file |-> "udp6", separator |-> <<":">>, routeType |-> "UDP6"] >>

\* routes.append(&mut more) for the file i, then the files after it
RECURSIVE AppendRoutes(_, _, _, _)
AppendMore(files, i, routes, checks, more) ==
    IF more.panic # "none" THEN more
    ELSE AppendRoutes(files, i + 1, routes \o more.val, checks)

\* routes.append(&mut getRoutes(readFile(...), ...)) for the files i..
AppendRoutes(files, i, routes, checks) ==
    IF i > Len(RouteFiles) THEN NoPanic(routes)
    ELSE AppendMore(files, i, routes, checks,
                    getRoutes(readFile(files[RouteFiles[i].file]),
                              RouteFiles[i].separator,
                              RouteFiles[i].routeType, checks))

NetOutcome(outcome, panic, routes) ==
    [called |-> TRUE, outcome |-> outcome, panic |-> panic, routes |-> routes]

\* the call returns the routes, or unwinds with the first panic
NetResult(routes) ==
    IF routes.panic # "none" THEN NetOutcome("Panic", routes.panic, <<>>)
    ELSE NetOutcome("Ok", "none", routes.val)

networkRoutes(h, files, checks) ==
    IF linuxCheck(h).panic # "none" THEN NetOutcome("Panic", "platform", <<>>)
    ELSE NetResult(AppendRoutes(files, 1, <<>>, checks))

----------------------------------------------------------------------------
(* The specification of networkRoutes *)

\* the header line of /proc/net/tcp and /proc/net/udp
HeaderV4 ==
    << " ", " ", "s", "l", " ", " ", "l", "o", "c", "a", "l", "_", "a",
      "d", "d", "r", "e", "s", "s", " ", "r", "e", "m", "_", "a", "d", "d",
      "r", "e", "s", "s", " ", " ", " ", "s", "t", " ", "t", "x", "_", "q",
      "u", "e", "u", "e", " ", "r", "x", "_", "q", "u", "e", "u", "e", " ",
      "t", "r", " ", "t", "m", "-", ">", "w", "h", "e", "n", " ", "r", "e",
      "t", "r", "n", "s", "m", "t", " ", " ", " ", "u", "i", "d", " ", " ",
      "t", "i", "m", "e", "o", "u", "t", " ", "i", "n", "o", "d", "e" >>

\* the header line of /proc/net/tcp6 and /proc/net/udp6
HeaderV6 ==
    << " ", " ", "s", "l", " ", " ", "l", "o", "c", "a", "l", "_", "a",
      "d", "d", "r", "e", "s", "s", " ", " ", " ", " ", " ", " ", " ", " ",
      " ", " ", " ", " ", " ", " ", " ", " ", " ", " ", " ", " ", " ", " ",
      " ", " ", " ", "r", "e", "m", "o", "t", "e", "_", "a", "d", "d", "r",
      "e", "s", "s", " ", " ", " ", " ", " ", " ", " ", " ", " ", " ", " ",
      " ", " ", " ", " ", " ", " ", " ", " ", " ", " ", " ", " ", " ", "s",
      "t", " ", "t", "x", "_", "q", "u", "e", "u", "e", " ", "r", "x", "_",
      "q", "u", "e", "u", "e", " ", "t", "r", " ", "t", "m", "-", ">", "w",
      "h", "e", "n", " ", "r", "e", "t", "r", "n", "s", "m", "t", " ", " ",
      " ", "u", "i", "d", " ", " ", "t", "i", "m", "e", "o", "u", "t", " ",
      "i", "n", "o", "d", "e" >>

\* the columns the kernel prints after the state
LineTail ==
    << " ", "0", "0", "0", "0", "0", "0", "0", "0", ":", "0", "0", "0",
      "0", "0", "0", "0", "0", " ", "0", "0", ":", "0", "0", "0", "0", "0",
      "0", "0", "0", " ", "0", "0", "0", "0", "0", "0", "0", "0", " ", " ",
      "1", "0", "0", "0", " ", " ", " ", " ", " ", " ", " ", " ", "0", " ",
      "1", "8", "3", "8", "5", " ", "1" >>

\* a data line as the kernel prints it: "%4d: ADDR:PORT ADDR:PORT ST ..."
\* (e is a sample entry: the bytes of the two addresses and ports in the
\* order they are printed, and the state byte)
ProcLine(sl, e) ==
    (IF sl < 10 THEN <<" ", " ", " ">> ELSE <<" ", " ">>) \o NatToString(sl)
        \o <<":", " ">> \o HexOf(e.local) \o <<":">> \o HexOf(e.lport)
        \o <<" ">> \o HexOf(e.remote) \o <<":">> \o HexOf(e.rport)
        \o <<" ">> \o HexPair(e.st) \o LineTail

Entry(local, lport, remote, rport, st) ==
    [local |-> local, lport |-> lport, remote |-> remote, rport |-> rport, st |-> st]

\* sample entries of the IPv4 files: 127.0.0.1:53 listening, and
\* 192.168.1.1 to 192.168.168.255 established
EntriesV4 ==
    { Entry(<<1, 0, 0, 127>>, <<53, 0>>, <<0, 0, 0, 0>>, <<0, 0>>, 10),
      Entry(<<1, 1, 168, 192>>, <<80, 0>>, <<255, 168, 168, 192>>, <<187, 1>>, 1) }

\* sample entries of the IPv6 files: :: listening, and ::ffff:127.0.0.1 to
\* fe80::5054:ff:feb6:ad1d established
EntriesV6 ==
    { Entry([i \in 1..16 |-> 0], <<22, 0>>, [i \in 1..16 |-> 0], <<0, 0>>, 10),
      Entry(<<0, 0, 0, 0, 0, 0, 0, 0, 255, 255, 0, 0, 1, 0, 0, 127>>, <<144, 31>>,
            <<0, 0, 128, 254, 0, 0, 0, 0, 255, 0, 84, 80, 182, 173, 29, 254>>,
            <<187, 1>>, 1) }

EntriesOf(f) == IF f \in {"tcp", "udp"} THEN EntriesV4 ELSE EntriesV6
HeaderOf(f) == IF f \in {"tcp", "udp"} THEN HeaderV4 ELSE HeaderV6

\* the text of a file with the given entries: the header, then one line per
\* entry, each line ended by a line feed
RECURSIVE ProcLines(_, _)
ProcLines(entries, sl) ==
    IF Len(entries) = 0 THEN <<>>
    ELSE ProcLine(sl, entries[1]) \o <<"\n">> \o ProcLines(Tail(entries), sl + 1)

ProcText(f, entries) == HeaderOf(f) \o <<"\n">> \o ProcLines(entries, 0)

\* the listening entry among the sample entries of a file
ListeningEntry(f) == CHOOSE e \in EntriesOf(f) : e.st = 10

\* what one of the files can be: missing, unreadable (whatever it holds),
\* empty, or the header
\* and up to MaxRouteLines entries (lines counts the entries)
ProcFiles(f) ==
    { [status |-> "missing", text |-> <<>>, lines |-> 0],
      [status |-> "denied", text |-> ProcText(f, <<ListeningEntry(f)>>), lines |-> 0],
      [status |-> "ok", text |-> <<>>, lines |-> 0] }
    \cup { [status |-> "ok", text |-> ProcText(f, es), lines |-> Len(es)] :
             es \in SeqsUpTo(EntriesOf(f), MaxRouteLines) }

\* the four files, with at most MaxRouteLines entries in all
NetFileSets ==
    LET all == { fs \in [tcp : ProcFiles("tcp"), udp : ProcFiles("udp"),
                         tcp6 : ProcFiles("tcp6"), udp6 : ProcFiles("udp6")] :
                   fs.tcp.lines + fs.udp.lines + fs.tcp6.lines + fs.udp6.lines
                       <= MaxRouteLines }
    IN  { [f \in Families |-> [status |-> fs[f].status, text |-> fs[f].text]] :
            fs \in all }

\* the files of the hosts that have /proc but no /sys
BareNetFileSets ==
    { fs \in NetFileSets :
        \A f \in Families : fs[f].status = "missing" \/ fs[f].text = HeaderOf(f) \o <<"\n">> }

NetworkRoutesCall ==
    /\ netOut' = networkRoutes(host, netFiles, overflowChecks)
    /\ UNCHANGED <<overflowChecks, call, host, gpuVars, netFiles>>

\* without /proc there are no /proc/net files
InitRoutes ==
    /\ overflowChecks \in BOOLEAN
    /\ call = NoCall
    /\ host \in Hosts
    /\ gpuFile = NoGpuFile
    /\ gpuOut = NoGpuOut
    /\ netFiles \in (IF host = LinuxHost THEN NetFileSets
                     ELSE IF host.proc THEN BareNetFileSets
                     ELSE {NoNetFiles})
    /\ netOut = NoNetOut

NextRoutes == NetworkRoutesCall

SpecRoutes == InitRoutes /\ [][NextRoutes]_vars

----------------------------------------------------------------------------
(* Claims about networkRoutes *)

\* s is what bytesToAddress returns for some four octets: four groups
\* separated by ".", each the decimal numeral of a value in 0..255
IsDottedQuad(s) ==
    LET groups == SplitOn(s, ".")
    IN  /\ Len(groups) = 4
        /\ \A i \in 1..4 : \E v \in Byte : IsDecimalOf(groups[i], v)

\* s is an IPv6 address in hexadecimal groups separated by ":": the 16 bytes
\* of the address as 8 groups of up to four hex digits, or as 16 groups of up
\* to two hex digits (one group for each byte, as bytesToAddress splits its
\* input)
IsColonHex(s) ==
    LET groups == SplitOn(s, ":")
    IN  /\ \A i \in 1..Len(groups) : Len(groups[i]) >= 1 /\ IsHexString(groups[i])
        /\ \/ Len(groups) = 8 /\ \A i \in 1..8 : Len(groups[i]) <= 4
           \/ Len(groups) = 16 /\ \A i \in 1..16 : Len(groups[i]) <= 2

\* C9: every NetworkRoute returned by networkRoutes has addresses in the
\* format of its family: four dot-separated decimal octets for TCP and UDP
\* records, colon-separated hexadecimal groups for TCP6 and UDP6 records.
C9_AddressFormat ==
    (netOut.called /\ netOut.outcome = "Ok") =>
        \A i \in 1..Len(netOut.routes) :
            LET r == netOut.routes[i]
            IN  IF r.routeType \in {"TCP", "UDP"}
                THEN IsDottedQuad(r.localAddress) /\ IsDottedQuad(r.remoteAddress)
                ELSE IsColonHex(r.localAddress) /\ IsColonHex(r.remoteAddress)

\* what holds of the code: the IPv4 half of C9
C9_V4DottedQuad ==
    (netOut.called /\ netOut.outcome = "Ok") =>
        \A i \in 1..Len(netOut.routes) :
            LET r == netOut.routes[i]
            IN  r.routeType \in {"TCP", "UDP"} =>
                    IsDottedQuad(r.localAddress) /\ IsDottedQuad(r.remoteAddress)

C9_V4Witness ==
    /\ netOut.called
    /\ netOut.outcome = "Ok"
    /\ Len(netOut.routes) = 2
    /\ netOut.routes[1].routeType = "TCP"
    /\ netOut.routes[1].localAddress = <<"1", "2", "7", ".", "0", ".", "0", ".", "1">>
    /\ netOut.routes[2].routeType = "UDP6"

----------------------------------------------------------------------------
(* The specification of RouteStatus::fromTcpCode *)

\* the code strings: every pair of hex digits in either case, and strings
\* that are not two characters long
CodeChars == {HexDigits[i] : i \in 1..16} \cup {LowerHexDigits[i] : i \in 1..16}

CodeInputs ==
    {<<a, b>> : a \in CodeChars, b \in CodeChars}
    \cup {<<>>, <<"1">>, <<"A">>, <<"0", "A", " ">>, <<" ", "0", "A">>, <<"0", "0", "A">>,
          <<"1", "0">>, <<"G", "0">>}

CodeCalls ==
    [fn : {"none"}, text : CodeInputs, separator : {<<>>}, out : {Panic("none")}]

CallFromTcpCode ==
    /\ call' = [call EXCEPT !.fn = "fromTcpCode",
                            !.out = NoPanic(fromTcpCode(call.text))]
    /\ UNCHANGED <<overflowChecks, host, gpuVars, netVars>>

InitCode ==
    /\ overflowChecks \in BOOLEAN
    /\ call \in CodeCalls
    /\ GpuAtRest
    /\ NetAtRest

NextCode == CallFromTcpCode

SpecCode == InitCode /\ [][NextCode]_vars

----------------------------------------------------------------------------
(* Claims about RouteStatus::fromTcpCode *)

\* the states of the eleven codes, as the kernel numbers them (TCP_ESTABLISHED
\* = 1 .. TCP_CLOSING = 11)
TcpStates ==
    << "ESTABLISHED", "SYN_SENT", "SYN_RECEIVED", "FIN_WAIT1", "FIN_WAIT2",
       "TIME_WAIT", "CLOSED", "CLOSE_WAIT", "LAST_ACKNOWLEDGMENT", "LISTENING",
       "CLOSING" >>

\* the number a code string denotes when it is one of "01".."09", "0A", "0B",
\* and 0 otherwise
CodeNumber(code) ==
    IF Len(code) = 2 /\ code[1] = "0"
          /\ code[2] \in {"1", "2", "3", "4", "5", "6", "7", "8", "9", "A", "B"}
    THEN DigitOf(code[2])
    ELSE 0

\* C11: fromTcpCode maps the eleven codes 01..09, 0A, 0B to eleven pairwise
\* distinct states (01 ESTABLISHED .. 0B CLOSING), maps every other code string
\* to the catch-all NEW_SYN_RECEIVED, and never fails.
C11_FromTcpCode ==
    call.fn = "fromTcpCode" =>
        /\ call.out.panic = "none"
        /\ IF CodeNumber(call.text) = 0
           THEN call.out.val = "NEW_SYN_RECEIVED"
           ELSE /\ call.out.val = TcpStates[CodeNumber(call.text)]
                /\ call.out.val # "NEW_SYN_RECEIVED"
                /\ \A other \in CodeInputs :
                      (CodeNumber(other) # 0 /\ other # call.text)
                          => fromTcpCode(other) # call.out.val

C11_Witness ==
    /\ call.fn = "fromTcpCode"
    /\ call.text = <<"0", "B">>
    /\ call.out = NoPanic("CLOSING")

C11_WitnessCatchAll ==
    /\ call.fn = "fromTcpCode"
    /\ call.text = <<"0", "a">>
    /\ call.out = NoPanic("NEW_SYN_RECEIVED")

----------------------------------------------------------------------------
(* The specification of getRoutes *)

\* 127.0.0.1:53, listening
LoopbackEntry == Entry(<<1, 0, 0, 127>>, <<53, 0>>, <<0, 0, 0, 0>>, <<0, 0>>, 10)

\* 192.168.1.1:80 to 192.168.168.255:443, established
LanEntry ==
    Entry(<<1, 1, 168, 192>>, <<80, 0>>, <<255, 168, 168, 192>>, <<187, 1>>, 1)

\* the line of entry e with its columns separated by gap
GapLine(sl, e, gap) ==
    <<" ", " ", " ">> \o NatToString(sl) \o <<":">> \o gap
        \o HexOf(e.local) \o <<":">> \o HexOf(e.lport) \o gap
        \o HexOf(e.remote) \o <<":">> \o HexOf(e.rport) \o gap
        \o HexPair(e.st) \o LineTail

\* the first n columns after the "sl" column of the line of entry e
CutLine(sl, e, n) ==
    <<" ", " ", " ">> \o NatToString(sl) \o <<":">>
        \o (IF n >= 1 THEN <<" ">> \o HexOf(e.local) \o <<":">> \o HexOf(e.lport)
            ELSE <<" ">>)
        \o (IF n >= 2 THEN <<" ">> \o HexOf(e.remote) \o <<":">> \o HexOf(e.rport)
            ELSE <<>>)

\* the lines a file is made of: lines as the kernel prints them, lines with
\* wider gaps between the columns, lines cut short, an empty line
SampleLines ==
    { ProcLine(0, LoopbackEntry), ProcLine(1, LanEntry),
      GapLine(1, LanEntry, <<" ", " ">>), GapLine(1, LanEntry, <<"\t">>),
      CutLine(2, LanEntry, 0), CutLine(2, LanEntry, 1), CutLine(2, LanEntry, 2),
      <<>> }

\* lines joined as the lines of a file
RECURSIVE TextOf(_)
TextOf(lines) ==
    IF Len(lines) = 0 THEN <<>> ELSE lines[1] \o <<"\n">> \o TextOf(Tail(lines))

\* the contents readFile returns for a file of up to MaxRouteLines sample
\* lines, with or without the header line
SampleTexts ==
    { Trim(header \o TextOf(lines)) :
        header \in {<<>>, HeaderV4 \o <<"\n">>},
        lines \in SeqsUpTo(SampleLines, MaxRouteLines) }

GetRoutesCalls ==
    { [fn |-> "none", text |-> t, separator |-> RouteFiles[k].separator,
       routeType |-> RouteFiles[k].routeType, out |-> Panic("none")] :
        t \in SampleTexts, k \in 1..Len(RouteFiles) }

CallGetRoutes ==
    /\ call' = [call EXCEPT !.fn = "getRoutes",
                            !.out = getRoutes(call.text, call.separator,
                                              call.routeType, overflowChecks)]
    /\ UNCHANGED <<overflowChecks, host, gpuVars, netVars>>

InitGetRoutes ==
    /\ overflowChecks \in BOOLEAN
    /\ call \in GetRoutesCalls
    /\ GpuAtRest
    /\ NetAtRest

NextGetRoutes == CallGetRoutes

SpecGetRoutes == InitGetRoutes /\ [][NextGetRoutes]_vars

----------------------------------------------------------------------------
(* Claims about getRoutes *)

\* the fields of a line: its maximal runs of characters that are not white
\* space (field 0 is the "sl" column)
FieldStarts(s) ==
    {i \in 1..Len(s) : s[i] \notin WhiteSpace /\ (i = 1 \/ s[i - 1] \in WhiteSpace)}

\* the last position of the field that starts at i
FieldEnd(s, i) ==
    CHOOSE j \in i..Len(s) :
        /\ \A k \in i..j : s[k] \notin WhiteSpace
        /\ j = Len(s) \/ s[j + 1] \in WhiteSpace

\* the k-th smallest element of a set of numbers
Nth(S, k) == CHOOSE i \in S : Cardinality({j \in S : j < i}) = k - 1

Fields(s) ==
    [k \in 1..Cardinality(FieldStarts(s)) |->
        SubSeq(s, Nth(FieldStarts(s), k), FieldEnd(s, Nth(FieldStarts(s), k)))]

\* the lines of a text that contain ':', in the order of the text
RECURSIVE ColonLinesFrom(_, _)
ColonLinesFrom(lines, i) ==
    IF i > Len(lines) THEN <<>>
    ELSE (IF Contains(lines[i], ":") THEN <<lines[i]>> ELSE <<>>)
             \o ColonLinesFrom(lines, i + 1)

ColonLines(text) == ColonLinesFrom(SplitOn(text, "\n"), 1)

\* f is address:port, the address an even number of hex digits and the port
\* four hex digits
IsAddrPort(f) ==
    LET parts == SplitOn(f, ":")
    IN  /\ Len(parts) = 2
        /\ IsHexString(parts[1]) /\ Len(parts[1]) % 2 = 0
        /\ IsHexString(parts[2]) /\ Len(parts[2]) = 4

\* the line has fields 1, 2 and 3: two address:port fields and a state
Complete(line) ==
    /\ Len(Fields(line)) >= 4
    /\ IsAddrPort(Fields(line)[2])
    /\ IsAddrPort(Fields(line)[3])

\* a complete line in the layout of the kernel: fields 0 to 3 are separated
\* by one space each, and field 3 is followed by a space or ends the line
WellFormed(line) ==
    /\ Complete(line)
    /\ LET f == Fields(line)
           head == Join(<<f[1], f[2], f[3], f[4]>>, <<" ">>)
       IN  \/ Trim(line) = head
           \/ SubSeq(Trim(line), 1, Len(head) + 1) = head \o <<" ">>

\* the route a complete line stands for, its columns taken by field
ExpectedRoute(line, routeType, separator) ==
    LET f == Fields(line)
        local == SplitOn(f[2], ":")
        remote == SplitOn(f[3], ":")
    IN  [routeType |-> routeType,
         localAddress |-> bytesToAddress(local[1], separator).val,
         localPort |-> PairValue(local[2], 1) * 256 + PairValue(local[2], 0),
         remoteAddress |-> bytesToAddress(remote[1], separator).val,
         remotePort |-> PairValue(remote[2], 1) * 256 + PairValue(remote[2], 0),
         routeStatus |-> IF routeType \in {"UDP", "UDP6"} THEN "LISTENING"
                         ELSE fromTcpCode(f[4])]

\* out is the list of the routes the lines of text stand for, in their order
IsRoutesOf(out, text, routeType, separator) ==
    /\ out.panic = "none"
    /\ Len(out.val) = Len(ColonLines(text))
    /\ \A i \in 1..Len(ColonLines(text)) :
          out.val[i] = ExpectedRoute(ColonLines(text)[i], routeType, separator)

\* C12: every route produced from a UDP or UDP6 file has the listening state,
\* whatever the state field of its line, and every route produced from a TCP
\* or TCP6 file has the state fromTcpCode gives for field 3 of its line.
C12_RouteStatus ==
    call.fn = "getRoutes" =>
        /\ (call.out.panic = "none" /\ call.routeType \in {"UDP", "UDP6"}) =>
              \A i \in 1..Len(call.out.val) :
                  call.out.val[i].routeStatus = "LISTENING"
        /\ (\A i \in 1..Len(ColonLines(call.text)) :
                  WellFormed(ColonLines(call.text)[i])) =>
              /\ call.out.panic = "none"
              /\ Len(call.out.val) = Len(ColonLines(call.text))
              /\ \A i \in 1..Len(call.out.val) :
                    call.out.val[i].routeStatus =
                        IF call.routeType \in {"TCP", "TCP6"}
                        THEN fromTcpCode(Fields(ColonLines(call.text)[i])[4])
                        ELSE "LISTENING"

\* a UDP file with an entry whose state field is 01
C12_Witness ==
    /\ call.fn = "getRoutes"
    /\ call.routeType = "UDP"
    /\ call.text = Trim(HeaderV4 \o <<"\n">> \o ProcLine(1, LanEntry) \o <<"\n">>)
    /\ call.out.panic = "none"
    /\ Len(call.out.val) = 1
    /\ call.out.val[1].routeStatus = "LISTENING"

C12_WitnessTcp ==
    /\ call.fn = "getRoutes"
    /\ call.routeType = "TCP"
    /\ call.text = Trim(HeaderV4 \o <<"\n">> \o ProcLine(1, LanEntry) \o <<"\n">>)
    /\ call.out.panic = "none"
    /\ Len(call.out.val) = 1
    /\ call.out.val[1].routeStatus = "ESTABLISHED"

\* C13: getRoutes produces exactly one NetworkRoute, tagged with the given
\* family, for each well-formed line that contains ':', in the order of the
\* lines, and nothing for the header line or a line without ':'; an empty
\* file or a file with only the header yields zero routes and no error.
C13_OneRoutePerLine ==
    (/\ call.fn = "getRoutes"
     /\ \A i \in 1..Len(ColonLines(call.text)) :
            WellFormed(ColonLines(call.text)[i])) =>
        /\ IsRoutesOf(call.out, call.text, call.routeType, call.separator)
        /\ \A i \in 1..Len(call.out.val) : call.out.val[i].routeType = call.routeType
        /\ call.text \in {<<>>, Trim(HeaderV4)} => call.out = NoPanic(<<>>)

\* the header, an empty line and two entries
C13_Witness ==
    /\ call.fn = "getRoutes"
    /\ call.routeType = "TCP"
    /\ call.text = Trim(HeaderV4 \o <<"\n">> \o ProcLine(1, LanEntry) \o <<"\n">>
                            \o ProcLine(0, LoopbackEntry) \o <<"\n">>)
    /\ call.out.panic = "none"
    /\ Len(call.out.val) = 2
    /\ call.out.val[1].localPort = 80
    /\ call.out.val[2].localPort = 53
    /\ call.out.val[2].routeStatus = "LISTENING"

C13_WitnessHeaderOnly ==
    /\ call.fn = "getRoutes"
    /\ call.text = Trim(HeaderV4)
    /\ call.out = NoPanic(<<>>)

\* C15: getRoutes splits each data line on white space, so a line whose fields
\* are separated by a run of several spaces (or a tab) decodes to the same
\* route as the same line with single spaces.
C15_SplitOnWhiteSpace ==
    (/\ call.fn = "getRoutes"
     /\ \A i \in 1..Len(ColonLines(call.text)) : Complete(ColonLines(call.text)[i])) =>
        IsRoutesOf(call.out, call.text, call.routeType, call.separator)

\* C16: if a line that contains ':' lacks field 1 or field 2, getRoutes ends
\* in a fatal error and returns no route list, not even the routes of the
\* well-formed lines before it.
C16_ShortLineIsFatal ==
    (/\ call.fn = "getRoutes"
     /\ \E i \in 1..Len(ColonLines(call.text)) :
            Len(Fields(ColonLines(call.text)[i])) < 3) =>
        /\ call.out.panic # "none"
        /\ call.out.val = <<>>

\* a well-formed line, then a line without field 2
C16_Witness ==
    /\ call.fn = "getRoutes"
    /\ call.text = Trim(ProcLine(0, LoopbackEntry) \o <<"\n">>
                            \o CutLine(2, LanEntry, 1) \o <<"\n">>)
    /\ call.out = Panic("index")

----------------------------------------------------------------------------
(* Claims about the files of networkRoutes *)

\* the routes the ':' lines from line i on stand for
RECURSIVE ExpectedRoutesFrom(_, _, _, _)
ExpectedRoutesFrom(lines, i, routeType, separator) ==
    IF i > Len(lines) THEN <<>>
    ELSE <<ExpectedRoute(lines[i], routeType, separator)>>
             \o ExpectedRoutesFrom(lines, i + 1, routeType, separator)

\* what a file contributes: the routes of its lines when it can be read,
\* nothing when it cannot
Contribution(file, routeType, separator) ==
    IF file.status = "ok"
    THEN ExpectedRoutesFrom(ColonLines(file.text), 1, routeType, separator)
    ELSE <<>>

\* C14: the list returned by networkRoutes is the concatenation, in this
\* order, of the routes of /proc/net/tcp, udp, tcp6 and udp6; a file that
\* cannot be read contributes zero routes and neither aborts the call nor
\* changes what the other three files contribute.
C14_ConcatenatedInFileOrder ==
    (netOut.called /\ host = LinuxHost) =>
        /\ netOut.outcome = "Ok"
        /\ netOut.routes = Contribution(netFiles.tcp, "TCP", <<".">>)
                               \o Contribution(netFiles.udp, "UDP", <<".">>)
                               \o Contribution(netFiles.tcp6, "TCP6", <<":">>)
                               \o Contribution(netFiles.udp6, "UDP6", <<":">>)

\* /proc/net/tcp cannot be read, /proc/net/tcp6 is missing, the two UDP
\* files have one entry each
C14_Witness ==
    /\ netOut.called
    /\ netFiles.tcp.status = "denied" /\ Len(ColonLines(netFiles.tcp.text)) = 1
    /\ netFiles.tcp6.status = "missing"
    /\ netFiles.udp.status = "ok" /\ netFiles.udp6.status = "ok"
    /\ netOut.outcome = "Ok"
    /\ Len(netOut.routes) = 2
    /\ netOut.routes[1].routeType = "UDP"
    /\ netOut.routes[2].routeType = "UDP6"

\* all four files can be read and two of them have an entry
C14_WitnessOrder ==
    /\ netOut.called
    /\ \A f \in Families : netFiles[f].status = "ok"
    /\ Len(netOut.routes) = 2
    /\ netOut.routes[1].routeType = "TCP"
    /\ netOut.routes[2].routeType = "UDP"

----------------------------------------------------------------------------
(* network.rs: bitsToByte, netmaskFromCidr *)

\* u8 + u8 and u8 * u8: a panic when the build checks overflow, the low
\* eight bits otherwise
AddU8(a, b, checks) ==
    IF a + b > 255 THEN (IF checks THEN Panic("overflow") ELSE NoPanic((a + b) % 256))
    ELSE NoPanic(a + b)

MulU8(a, b, checks) ==
    IF a * b > 255 THEN (IF checks THEN Panic("overflow") ELSE NoPanic((a * b) % 256))
    ELSE NoPanic(a * b)

\* 2_i32.pow(i) as u8, for i in 0..7 (2^i fits i32)
PowTwoAsU8(i) == (2 ^ i) % 256

RECURSIVE BitsToByteLoop(_, _, _, _)

\* byte += term, then the iterations after i
BitsToByteAdd(bits, i, byte, checks, term) ==
    IF term.panic # "none" THEN term
    ELSE IF AddU8(byte, term.val, checks).panic # "none" THEN Panic("overflow")
    ELSE BitsToByteLoop(bits, i + 1, AddU8(byte, term.val, checks).val, checks)

\* for i in 0..8 { byte += bits[i] * 2_i32.pow(i as u32) as u8; }
BitsToByteLoop(bits, i, byte, checks) ==
    IF i >= 8 THEN NoPanic(byte)
    ELSE IF i >= Len(bits) THEN Panic("index")
    ELSE BitsToByteAdd(bits, i, byte, checks,
                       MulU8(bits[i + 1], PowTwoAsU8(i), checks))

\* mutant of bitsToByte: the bits are not reversed, the first bit is the least
\* significant one
bitsToByteLsbFirst(bits, checks) == BitsToByteLoop(bits, 0, 0, checks)

bitsToByte(bits, checks) == BitsToByteLoop(Reverse(bits), 0, 0, checks)

\* for i in 0..32 { if i < cidr { bits.push(1) } else { bits.push(0) } }
CidrBits(cidr) == [i \in 1..32 |-> IF i - 1 < cidr THEN 1 ELSE 0]

RECURSIVE MaskFrom(_, _, _, _)

\* mask.push(byte); i += 8
MaskPush(bits, i, mask, checks, byte) ==
    IF byte.panic # "none" THEN byte
    ELSE MaskFrom(bits, i + 8, Append(mask, byte.val), checks)

\* while i < 32 { mask.push(bitsToByte(&mut bits.get_mut(i..i+8).unwrap().to_vec())); ... }
MaskFrom(bits, i, mask, checks) ==
    IF i >= 32 THEN NoPanic(mask)
    ELSE IF i + 8 > Len(bits) THEN Panic("unwrap")
    ELSE MaskPush(bits, i, mask, checks, bitsToByte(SubSeq(bits, i + 1, i + 8), checks))

\* format!("{}.{}.{}.{}", mask[0], mask[1], mask[2], mask[3])
FormatMask(mask) ==
    IF mask.panic # "none" THEN mask
    ELSE NoPanic(Join([k \in 1..4 |-> NatToString(mask.val[k])], <<".">>))

netmaskFromCidr(cidr, checks) == FormatMask(MaskFrom(CidrBits(cidr), 0, <<>>, checks))

----------------------------------------------------------------------------
(* The specification of netmaskFromCidr *)

\* cidr: u8
CidrInputs == 0..255

CidrCalls == [fn : {"none"}, cidr : CidrInputs, out : {Panic("none")}]

CallNetmaskFromCidr ==
    /\ call' = [call EXCEPT !.fn = "netmaskFromCidr",
                            !.out = netmaskFromCidr(call.cidr, overflowChecks)]
    /\ UNCHANGED <<overflowChecks, host, gpuVars, netVars>>

InitMask ==
    /\ overflowChecks \in BOOLEAN
    /\ call \in CidrCalls
    /\ GpuAtRest
    /\ NetAtRest

NextMask == CallNetmaskFromCidr

SpecMask == InitMask /\ [][NextMask]_vars

----------------------------------------------------------------------------
(* Claims about netmaskFromCidr *)

\* octet k (0 the first) of the 32-bit value whose top cidr bits are 1: its
\* top n bits are 1, n being the part of cidr that falls into the octet
MaskOctet(cidr, k) ==
    LET n == IF cidr - 8 * k >= 8 THEN 8 ELSE IF cidr - 8 * k <= 0 THEN 0 ELSE cidr - 8 * k
    IN  256 - 2 ^ (8 - n)

\* C17: for every cidr in 0..32 netmaskFromCidr returns the four
\* dot-separated decimal octets of the 32-bit value whose top cidr bits are 1
\* and whose other bits are 0, no octet computation overflowing 8 bits; 24
\* gives "255.255.255.0", 0 gives "0.0.0.0", 32 gives "255.255.255.255".
C17_NetmaskFromCidr ==
    (call.fn = "netmaskFromCidr" /\ call.cidr \in 0..32) =>
        /\ call.out.panic = "none"
        /\ Len(SplitOn(call.out.val, ".")) = 4
        /\ \A k \in 0..3 :
              IsDecimalOf(SplitOn(call.out.val, ".")[k + 1], MaskOctet(call.cidr, k))
        /\ call.cidr = 24 =>
              call.out.val = <<"2", "5", "5", ".", "2", "5", "5", ".", "2", "5", "5", ".", "0">>
        /\ call.cidr = 0 => call.out.val = <<"0", ".", "0", ".", "0", ".", "0">>
        /\ call.cidr = 32 =>
              call.out.val = <<"2", "5", "5", ".", "2", "5", "5", ".", "2", "5", "5", ".",
                               "2", "5", "5">>

\* a prefix that ends inside an octet, in a build that checks overflow
C17_Witness ==
    /\ call.fn = "netmaskFromCidr"
    /\ call.cidr = 20
    /\ overflowChecks
    /\ call.out = NoPanic(<<"2", "5", "5", ".", "2", "5", "5", ".", "2", "4", "0", ".", "0">>)

----------------------------------------------------------------------------
(* Strings: substrings, str::replace, str::parse::<u8> *)

\* pat occurs in s at position i
StartsAt(s, pat, i) ==
    i + Len(pat) - 1 <= Len(s) /\ SubSeq(s, i, i + Len(pat) - 1) = pat

\* str::contains(pat), pat a string that is not empty
ContainsStr(s, pat) == \E i \in 1..Len(s) : StartsAt(s, pat, i)

\* str::replace(pat, ""): s without the occurrences of pat, found from left
\* to right
RECURSIVE RemoveAll(_, _)
RemoveAll(s, pat) ==
    IF ~ContainsStr(s, pat) THEN s
    ELSE LET k == CHOOSE i \in 1..Len(s) :
                      StartsAt(s, pat, i) /\ \A j \in 1..(i - 1) : ~StartsAt(s, pat, j)
         IN  SubSeq(s, 1, k - 1) \o RemoveAll(SubSeq(s, k + Len(pat), Len(s)), pat)

\* the value of the decimal digits s[1..n], or 256 when it is above 255
RECURSIVE DecimalUpTo255(_, _)
DecimalUpTo255(s, n) ==
    IF n = 0 THEN 0
    ELSE IF DecimalUpTo255(s, n - 1) * 10 + DigitOf(s[n]) > 255 THEN 256
    ELSE DecimalUpTo255(s, n - 1) * 10 + DigitOf(s[n])

\* the digits of parse::<u8>: the string without an optional leading '+'
UnsignedDigits(s) == IF Len(s) > 0 /\ s[1] = "+" THEN Tail(s) ELSE s

\* str::parse::<u8>(): at least one decimal digit after an optional '+',
\* nothing else (no white space), and a value of at most 255
ParseU8(s) ==
    IF \/ Len(UnsignedDigits(s)) = 0
       \/ \E i \in 1..Len(UnsignedDigits(s)) : UnsignedDigits(s)[i] \notin DecimalDigits
       \/ DecimalUpTo255(UnsignedDigits(s), Len(UnsignedDigits(s))) > 255
    THEN [ok |-> FALSE, val |-> 0]
    ELSE [ok |-> TRUE, val |-> DecimalUpTo255(UnsignedDigits(s), Len(UnsignedDigits(s)))]

\* u8 & u8
RECURSIVE BitAnd(_, _)
BitAnd(a, b) ==
    IF a = 0 \/ b = 0 THEN 0
    ELSE (a % 2) * (b % 2) + 2 * BitAnd(a \div 2, b \div 2)

----------------------------------------------------------------------------
(* network.rs: makeu8Vec, ipToBaseNetwork *)

RECURSIVE OctetsFrom(_, _, _)

\* uIP.push(octet.parse::<u8>().unwrap())
OctetPush(splitted, i, uIP, parsed) ==
    IF ~parsed.ok THEN Panic("parse")
    ELSE OctetsFrom(splitted, i + 1, Append(uIP, parsed.val))

\* for octet in splitted, from the i-th piece on
OctetsFrom(splitted, i, uIP) ==
    IF i > Len(splitted) THEN NoPanic(uIP)
    ELSE OctetPush(splitted, i, uIP, ParseU8(splitted[i]))

makeu8Vec(ip) == OctetsFrom(SplitOn(ip, "."), 1, <<>>)

\* for i in 0..4 { baseNetwork.push((ipVec[i] & maskVec[i]).to_string()) },
\* then join(".")
BaseNetworkOf(ipVec, maskVec) ==
    IF ipVec.panic # "none" THEN ipVec
    ELSE IF maskVec.panic # "none" THEN maskVec
    ELSE IF Len(ipVec.val) < 4 \/ Len(maskVec.val) < 4 THEN Panic("index")
    ELSE NoPanic(Join([i \in 1..4 |-> NatToString(BitAnd(ipVec.val[i], maskVec.val[i]))],
                      <<".">>))

ipToBaseNetwork(ip, mask) == BaseNetworkOf(makeu8Vec(ip), makeu8Vec(mask))

----------------------------------------------------------------------------
(* network.rs: getIPv4 *)

LinkUnicast == <<"l", "i", "n", "k", " ", "U", "N", "I", "C", "A", "S", "T">>
HostLocal == <<"h", "o", "s", "t", " ", "L", "O", "C", "A", "L">>
Branch == <<"|", "-", "-">>
Gateway == <<"G", "a", "t", "e", "w", "a", "y">>

\* while index < lines.len() && !lines.get(index).unwrap().contains("host LOCAL")
\* { index += 1 }: the index the loop ends with (index is a Rust index)
RECURSIVE SkipToHostLocal(_, _)
SkipToHostLocal(lines, index) ==
    IF index < Len(lines) /\ ~ContainsStr(lines[index + 1], HostLocal)
    THEN SkipToHostLocal(lines, index + 1)
    ELSE index

\* what one iteration of the while loop of lines 244-278 leaves: the index
\* and the tuples, or the panic it ends in
Scanned(index, addresses) == [panic |-> "none", index |-> index, addresses |-> addresses]
ScanPanic(kind) == [panic |-> kind, index |-> 0, addresses |-> <<>>]

\* lines 271-277: the line after the "host LOCAL" line is the broadcast
\* (index is the index of that line), the prefix is parsed, the tuple is
\* pushed and the index moves past the broadcast line
PushAddress(lines, index, addresses, checks, address, cidr) ==
    IF index >= Len(lines) THEN ScanPanic("unwrap")
    ELSE IF ~ParseU8(cidr).ok THEN ScanPanic("parse")
    ELSE IF netmaskFromCidr(ParseU8(cidr).val, checks).panic # "none"
    THEN ScanPanic(netmaskFromCidr(ParseU8(cidr).val, checks).panic)
    ELSE Scanned(index + 1,
                 Append(addresses,
                        [address |-> address,
                         broadcast |-> Trim(RemoveAll(lines[index + 1], Branch)),
                         netmask |-> netmaskFromCidr(ParseU8(cidr).val, checks).val,
                         cidr |-> cidr]))

\* mutant of AfterMarker: at a marker that follows a marker the index is
\* left where the iteration found it
AfterMarkerIndexKept(lines, index, addresses, checks, cidr, binding) ==
    IF Contains(binding, "+") THEN Scanned(index + 1, addresses)
    ELSE IF ContainsStr(binding, LinkUnicast) THEN Scanned(index - 1, addresses)
    ELSE PushAddress(lines, SkipToHostLocal(lines, index) + 1, addresses, checks,
                     Trim(binding), cidr)

\* lines 256-269: binding is the line after the marker with its "|--"
\* removed, index the index of that line; after a "+" line the iteration
\* ends past that line, at another marker it ends at that marker
AfterMarker(lines, index, addresses, checks, cidr, binding) ==
    IF Contains(binding, "+") THEN Scanned(index + 1, addresses)
    ELSE IF ContainsStr(binding, LinkUnicast) THEN Scanned(index, addresses)
    ELSE PushAddress(lines, SkipToHostLocal(lines, index) + 1, addresses, checks,
                     Trim(binding), cidr)

\* lines 252-254: the prefix is characters 1..3 of the trimmed marker line,
\* and the next line is read
AtMarker(lines, index, addresses, checks, trimmed) ==
    IF Len(trimmed) < 3 THEN ScanPanic("unwrap")
    ELSE IF index + 1 >= Len(lines) THEN ScanPanic("unwrap")
    ELSE AfterMarker(lines, index + 1, addresses, checks, SubSeq(trimmed, 2, 3),
                     RemoveAll(lines[index + 2], Branch))

\* one iteration of the while loop, at index < lines.len()
ScanIteration(lines, index, addresses, checks) ==
    IF ~ContainsStr(lines[index + 1], LinkUnicast) THEN Scanned(index + 1, addresses)
    ELSE AtMarker(lines, index, addresses, checks, Trim(lines[index + 1]))

RECURSIVE ScanFibTrie(_, _, _, _)

\* the loop goes on from what an iteration left, or unwinds with its panic
ScanOn(lines, checks, scanned) ==
    IF scanned.panic # "none" THEN Panic(scanned.panic)
    ELSE ScanFibTrie(lines, scanned.index, scanned.addresses, checks)

\* the while loop over the lines of fib_trie, from index on
ScanFibTrie(lines, index, addresses, checks) ==
    IF index >= Len(lines) THEN NoPanic(addresses)
    ELSE ScanOn(lines, checks, ScanIteration(lines, index, addresses, checks))

\* usedIps.contains(address)
IsUsed(usedIps, address) == \E i \in 1..Len(usedIps) : usedIps[i] = address

RECURSIVE FindAddress(_, _, _, _)

\* mutant of MatchAddress: an address that is already used is bound again
MatchAddressUsedAgain(addresses, k, network, usedIps, baseAddress) ==
    IF baseAddress.panic # "none" THEN baseAddress
    ELSE IF network = baseAddress.val THEN NoPanic(k)
    ELSE FindAddress(addresses, k + 1, network, usedIps)

\* lines 300-314: the k-th tuple is taken when its base network is the
\* network of the route line; the loop breaks there, with nothing bound
\* (0) when the address is already used
MatchAddress(addresses, k, network, usedIps, baseAddress) ==
    IF baseAddress.panic # "none" THEN baseAddress
    ELSE IF network = baseAddress.val
    THEN (IF IsUsed(usedIps, addresses[k].address) THEN NoPanic(0) ELSE NoPanic(k))
    ELSE FindAddress(addresses, k + 1, network, usedIps)

\* for (address, broadcast, netmask, cidrMask) in &addresses, from the k-th
\* tuple on: the index of the tuple that is bound, 0 when none is
FindAddress(addresses, k, network, usedIps) ==
    IF k > Len(addresses) THEN NoPanic(0)
    ELSE MatchAddress(addresses, k, network, usedIps,
                      ipToBaseNetwork(addresses[k].address, addresses[k].netmask))

RECURSIVE CorrelateRoutes(_, _, _, _, _)

\* mutant of PushBinding: the binding is put in front of the earlier ones
PushBindingInFront(lines, i, addresses, usedIps, ipv4Addresses, device, found) ==
    IF found.panic # "none" THEN found
    ELSE IF found.val = 0 \/ addresses[found.val].address = <<>>
    THEN CorrelateRoutes(lines, i + 1, addresses, usedIps, ipv4Addresses)
    ELSE CorrelateRoutes(lines, i + 1, addresses,
                         Append(usedIps, addresses[found.val].address),
                         <<[address |-> addresses[found.val].address,
                            interface |-> device,
                            broadcast |-> addresses[found.val].broadcast,
                            netmask |-> addresses[found.val].netmask,
                            cidr |-> addresses[found.val].cidr]>> \o ipv4Addresses)

\* mutant of PushBinding: the netmask is the one of the first tuple
PushBindingFirstNetmask(lines, i, addresses, usedIps, ipv4Addresses, device, found) ==
    IF found.panic # "none" THEN found
    ELSE IF found.val = 0 \/ addresses[found.val].address = <<>>
    THEN CorrelateRoutes(lines, i + 1, addresses, usedIps, ipv4Addresses)
    ELSE CorrelateRoutes(lines, i + 1, addresses,
                         Append(usedIps, addresses[found.val].address),
                         Append(ipv4Addresses,
                                [address |-> addresses[found.val].address,
                                 interface |-> device,
                                 broadcast |-> addresses[found.val].broadcast,
                                 netmask |-> addresses[1].netmask,
                                 cidr |-> addresses[found.val].cidr]))

\* lines 317-325: the binding is pushed when an address was taken
PushBinding(lines, i, addresses, usedIps, ipv4Addresses, device, found) ==
    IF found.panic # "none" THEN found
    ELSE IF found.val = 0 \/ addresses[found.val].address = <<>>
    THEN CorrelateRoutes(lines, i + 1, addresses, usedIps, ipv4Addresses)
    ELSE CorrelateRoutes(lines, i + 1, addresses,
                         Append(usedIps, addresses[found.val].address),
                         Append(ipv4Addresses,
                                [address |-> addresses[found.val].address,
                                 interface |-> device,
                                 broadcast |-> addresses[found.val].broadcast,
                                 netmask |-> addresses[found.val].netmask,
                                 cidr |-> addresses[found.val].cidr]))

\* lines 287-297: the device and the decoded destination of a route line
BindNetwork(lines, i, addresses, usedIps, ipv4Addresses, device, network) ==
    IF network.panic # "none" THEN network
    ELSE PushBinding(lines, i, addresses, usedIps, ipv4Addresses, device,
                     FindAddress(addresses, 1, network.val, usedIps))

\* splittedLine.first().unwrap() and splittedLine.get(1).unwrap()
SplitRouteLine(lines, i, addresses, usedIps, ipv4Addresses, splittedLine) ==
    IF Len(splittedLine) < 2 THEN Panic("unwrap")
    ELSE BindNetwork(lines, i, addresses, usedIps, ipv4Addresses, Trim(splittedLine[1]),
                     bytesToAddress(Trim(splittedLine[2]), <<".">>))

\* for line in routeFile.split("\n"), from the i-th line on
CorrelateRoutes(lines, i, addresses, usedIps, ipv4Addresses) ==
    IF i > Len(lines) THEN NoPanic(ipv4Addresses)
    ELSE IF lines[i] = <<>> \/ ContainsStr(lines[i], Gateway)
    THEN CorrelateRoutes(lines, i + 1, addresses, usedIps, ipv4Addresses)
    ELSE SplitRouteLine(lines, i, addresses, usedIps, ipv4Addresses,
                        SplitOn(lines[i], "\t"))

\* the second loop of getIPv4, when the first has not panicked
Correlate(routeFile, addresses) ==
    IF addresses.panic # "none" THEN addresses
    ELSE CorrelateRoutes(SplitOn(routeFile, "\n"), 1, addresses.val, <<>>, <<>>)

\* the outcome of getIPv4: the returned vector or a panic
IpOutcome(result) ==
    [called |-> TRUE,
     outcome |-> IF result.panic = "none" THEN "Ok" ELSE "Panic",
     panic |-> result.panic,
     bindings |-> result.val]

\* getIPv4 reads the two files whole, scans fib_trie, then correlates the
\* route table; it does not call linuxCheck
getIPv4(files, checks) ==
    IpOutcome(Correlate(readFile(files.route),
                        ScanFibTrie(SplitOn(readFile(files.fib_trie), "\n"), 0, <<>>,
                                    checks)))

\* mutant of getIPv4Again: the addresses bound by the earlier call are still
\* in usedIps
getIPv4KeepingUsed(previous, files, checks) ==
    IpOutcome(LET addresses == ScanFibTrie(SplitOn(readFile(files.fib_trie), "\n"), 0,
                                           <<>>, checks)
              IN  IF addresses.panic # "none" THEN addresses
                  ELSE CorrelateRoutes(SplitOn(readFile(files.route), "\n"), 1,
                                       addresses.val,
                                       [i \in 1..Len(previous.bindings) |->
                                           previous.bindings[i].address],
                                       <<>>))

\* a call of getIPv4 after an earlier call that returned previous:
\* ipv4Addresses, addresses and usedIps are locals that the call creates
\* empty (lines 235, 236, 280), there is no static, and both files are read
\* again (lines 238, 239); nothing of the earlier call is left
getIPv4Again(previous, files, checks) == getIPv4(files, checks)

----------------------------------------------------------------------------
(* The specification of getIPv4 *)

\* the header line of /proc/net/route
RouteHeader ==
    << "I", "f", "a", "c", "e", "\t", "D", "e", "s", "t", "i", "n", "a", "t",
      "i", "o", "n", "\t", "G", "a", "t", "e", "w", "a", "y", " ", "\t", "F",
      "l", "a", "g", "s", "\t", "R", "e", "f", "C", "n", "t", "\t", "U", "s",
      "e", "\t", "M", "e", "t", "r", "i", "c", "\t", "M", "a", "s", "k",
      "\t", "\t", "M", "T", "U", "\t", "W", "i", "n", "d", "o", "w", "\t",
      "I", "R", "T", "T" >>

\* the columns of a route line after the gateway: flags, counters, metric,
\* mask, MTU, window, IRTT
RouteTail ==
    << "\t", "0", "0", "0", "1", "\t", "0", "\t", "0", "\t", "1", "0", "0",
      "\t", "0", "0", "F", "F", "F", "F", "F", "F", "\t", "0", "\t", "0",
      "\t", "0" >>

\* a line of /proc/net/route: the device, then the destination and the
\* gateway as the kernel prints them (hex, lowest byte last)
RouteLine(device, destination, gateway) ==
    device \o <<"\t">> \o HexOf(Reverse(destination)) \o <<"\t">>
        \o HexOf(Reverse(gateway)) \o RouteTail

Eth0 == <<"e", "t", "h", "0">>
Wlan0 == <<"w", "l", "a", "n", "0">>

\* on-link routes of two devices to 192.168.1.0, an on-link route to
\* 10.0.0.0, and a default route through the gateway 192.168.1.1
SampleRouteLines ==
    { RouteLine(Eth0, <<192, 168, 1, 0>>, <<0, 0, 0, 0>>),
      RouteLine(Wlan0, <<192, 168, 1, 0>>, <<0, 0, 0, 0>>),
      RouteLine(Eth0, <<10, 0, 0, 0>>, <<0, 0, 0, 0>>),
      RouteLine(Eth0, <<0, 0, 0, 0>>, <<192, 168, 1, 1>>) }

\* the local addresses of the model, with their prefix lengths:
\* 192.168.1.5/24 and 192.168.1.6/25 are on the network 192.168.1.0
SampleAddresses ==
    { [address |-> <<192, 168, 1, 5>>, cidr |-> 24],
      [address |-> <<192, 168, 1, 6>>, cidr |-> 25],
      [address |-> <<10, 0, 0, 5>>, cidr |-> 16],
      [address |-> <<10, 1, 2, 3>>, cidr |-> 8] }

\* octets in dotted decimal
Dotted(octets) == Join([i \in 1..Len(octets) |-> NatToString(octets[i])], <<".">>)

\* octet i (from 1) of the netmask of a prefix length
PrefixOctet(cidr, i) ==
    IF cidr >= 8 * i THEN 255
    ELSE IF cidr <= 8 * (i - 1) THEN 0
    ELSE 256 - 2 ^ (8 * i - cidr)

NetworkOf(a) == [i \in 1..4 |-> BitAnd(a.address[i], PrefixOctet(a.cidr, i))]
BroadcastOf(a) == [i \in 1..4 |-> NetworkOf(a)[i] + 255 - PrefixOctet(a.cidr, i)]

Spaces(n) == [i \in 1..n |-> " "]

\* the lines fib_trie prints for a local address: the branch of its network,
\* the network with its "link UNICAST" leaf, the address with its "host
\* LOCAL" leaf, the broadcast address with its "link BROADCAST" leaf
TrieBlock(a) ==
    << Spaces(5) \o <<"+", "-", "-", " ">> \o Dotted(NetworkOf(a)) \o <<"/">>
           \o NatToString(a.cidr) \o <<" ", "2", " ", "0", " ", "2">>,
       Spaces(8) \o <<"|", "-", "-", " ">> \o Dotted(NetworkOf(a)),
       Spaces(11) \o <<"/">> \o NatToString(a.cidr) \o <<" ">> \o LinkUnicast,
       Spaces(8) \o <<"|", "-", "-", " ">> \o Dotted(a.address),
       Spaces(11) \o <<"/", "3", "2", " ">> \o HostLocal,
       Spaces(8) \o <<"|", "-", "-", " ">> \o Dotted(BroadcastOf(a)),
       Spaces(11) \o <<"/", "3", "2", " ", "l", "i", "n", "k", " ", "B", "R", "O", "A",
                        "D", "C", "A", "S", "T">> >>

RECURSIVE TrieBlocks(_)
TrieBlocks(as) == IF Len(as) = 0 THEN <<>> ELSE TrieBlock(as[1]) \o TrieBlocks(Tail(as))

\* one table of fib_trie: its name, the root branch, the blocks
TrieTable(name, as) ==
    <<name \o <<":">>,
      Spaces(2) \o <<"+", "-", "-", " ", "0", ".", "0", ".", "0", ".", "0", "/", "0", " ",
                     "3", " ", "0", " ", "5">> >> \o TrieBlocks(as)

\* fib_trie with the Main table, and the Local table when the kernel keeps
\* the two apart (the Local table then lists the same addresses)
TrieText(as, both) ==
    TextOf(TrieTable(<<"M", "a", "i", "n">>, as)
           \o (IF both THEN TrieTable(<<"L", "o", "c", "a", "l">>, as) ELSE <<>>))

\* what fib_trie can be: missing, or the Main table with up to n addresses,
\* or the Main and Local tables with up to one address
TrieFiles(n) ==
    { [status |-> "missing", text |-> <<>>] }
    \cup { [status |-> "ok", text |-> TrieText(as, FALSE)] :
             as \in SeqsUpTo(SampleAddresses, n) }
    \cup { [status |-> "ok", text |-> TrieText(as, TRUE)] :
             as \in SeqsUpTo(SampleAddresses, 1) }

\* what the route table can be: missing, or the header and up to n lines
RouteTableFiles(n) ==
    { [status |-> "missing", text |-> <<>>] }
    \cup { [status |-> "ok", text |-> TextOf(<<RouteHeader>> \o lines)] :
             lines \in SeqsUpTo(SampleRouteLines, n) }

IpFileSets == [route : RouteTableFiles(MaxRouteLines), fib_trie : TrieFiles(MaxAddresses)]

\* the files of the hosts that have /proc but no /sys
BareIpFileSets == [route : RouteTableFiles(1), fib_trie : TrieFiles(1)]

NoIpFiles ==
    [route |-> [status |-> "missing", text |-> <<>>],
     fib_trie |-> [status |-> "missing", text |-> <<>>]]

NoIpOut == [called |-> FALSE, outcome |-> "NotCalled", panic |-> "none", bindings |-> <<>>]

GetIPv4Call ==
    /\ netOut' = getIPv4(netFiles, overflowChecks)
    /\ UNCHANGED <<overflowChecks, call, host, gpuVars, netFiles>>

\* without /proc there are no /proc/net files
InitIPv4 ==
    /\ overflowChecks \in BOOLEAN
    /\ call = NoCall
    /\ host \in Hosts
    /\ gpuFile = NoGpuFile
    /\ gpuOut = NoGpuOut
    /\ netFiles \in (IF host = LinuxHost THEN IpFileSets
                     ELSE IF host.proc THEN BareIpFileSets
                     ELSE {NoIpFiles})
    /\ netOut = NoIpOut

NextIPv4 == GetIPv4Call

SpecIPv4 == InitIPv4 /\ [][NextIPv4]_vars

----------------------------------------------------------------------------
(* Claims about getIPv4 *)

\* the route entries among lines i.. : the lines that are neither empty nor
\* the header
RECURSIVE RouteEntriesFrom(_, _)
RouteEntriesFrom(lines, i) ==
    IF i > Len(lines) THEN <<>>
    ELSE (IF lines[i] = <<>> \/ lines[i] = RouteHeader THEN <<>> ELSE <<lines[i]>>)
             \o RouteEntriesFrom(lines, i + 1)

\* the route entries of the route table that getIPv4 read
RouteEntries == RouteEntriesFrom(SplitOn(readFile(netFiles.route), "\n"), 1)

\* the device of a route entry, and its destination in dotted decimal (the
\* Destination column holds the four bytes in hex, lowest byte last)
DeviceOf(line) == Fields(line)[1]
DestinationOf(line) ==
    Dotted([i \in 1..4 |-> PairValue(Fields(line)[2], 4 - i)])

\* the four octets of a dotted decimal string
OctetsOf(s) ==
    [i \in 1..4 |-> DecimalValue(SplitOn(s, ".")[i], Len(SplitOn(s, ".")[i]))]

\* the base network of an address under a netmask, both dotted decimal
BaseOf(address, netmask) ==
    Dotted([i \in 1..4 |-> BitAnd(OctetsOf(address)[i], OctetsOf(netmask)[i])])

\* the positions of the route entries whose destination is network
EntriesTo(network) ==
    {i \in 1..Len(RouteEntries) : DestinationOf(RouteEntries[i]) = network}

\* C18: in the result of one getIPv4 pass no local address appears in more
\* than one binding: when two route entries have a destination network that
\* matches the same resolved local address, the first entry in route-file
\* order is bound to it and the second is omitted from the result.
C18_AddressBoundOnce ==
    (netOut.called /\ netOut.outcome = "Ok") =>
        /\ \A i, j \in 1..Len(netOut.bindings) :
              i # j => netOut.bindings[i].address # netOut.bindings[j].address
        /\ \A i \in 1..Len(netOut.bindings) :
              LET b == netOut.bindings[i]
                  to == EntriesTo(BaseOf(b.address, b.netmask))
              IN  /\ to # {}
                  /\ b.interface = DeviceOf(RouteEntries[Nth(to, 1)])

\* two route entries to the network of the only local address
C18_Witness ==
    /\ netOut.called
    /\ netOut.outcome = "Ok"
    /\ RouteEntries = << RouteLine(Eth0, <<192, 168, 1, 0>>, <<0, 0, 0, 0>>),
                         RouteLine(Wlan0, <<192, 168, 1, 0>>, <<0, 0, 0, 0>>) >>
    /\ Len(netOut.bindings) = 1
    /\ netOut.bindings[1].interface = Eth0
    /\ netOut.bindings[1].address = Dotted(<<192, 168, 1, 5>>)

\* C19: in the result of one getIPv4 pass each interface (device name)
\* receives at most one local-address binding, for every fib_trie and route
\* table content, including a route table that lists the same device on
\* several lines with different destination networks.
C19_DeviceBoundOnce ==
    (netOut.called /\ netOut.outcome = "Ok") =>
        \A i, j \in 1..Len(netOut.bindings) :
            i # j => netOut.bindings[i].interface # netOut.bindings[j].interface

\* the resolved tuples of the fib_trie that getIPv4 read
Resolved == ScanFibTrie(SplitOn(readFile(netFiles.fib_trie), "\n"), 0, <<>>, overflowChecks)

\* the tuples a route entry to network can be bound to: those on that
\* network whose address is not consumed
Candidates(addresses, network, consumed) ==
    {k \in 1..Len(addresses) :
        /\ BaseOf(addresses[k].address, addresses[k].netmask) = network
        /\ addresses[k].address \notin consumed}

\* the device and address of the bindings of the entries i.. when each entry
\* is bound to its first candidate
RECURSIVE FirstCandidateBindings(_, _, _, _)
FirstCandidateBindings(entries, i, addresses, consumed) ==
    IF i > Len(entries) THEN <<>>
    ELSE LET c == Candidates(addresses, DestinationOf(entries[i]), consumed)
         IN  IF c = {} THEN FirstCandidateBindings(entries, i + 1, addresses, consumed)
             ELSE <<[interface |-> DeviceOf(entries[i]),
                     address |-> addresses[Nth(c, 1)].address]>>
                      \o FirstCandidateBindings(entries, i + 1, addresses,
                              consumed \cup {addresses[Nth(c, 1)].address})

\* C20: for each processed route line getIPv4 binds the device to the first
\* resolved address, in subnet-list order, whose base network equals the
\* decoded destination network and which has not been consumed in this pass;
\* the line is left unbound only when no resolved address satisfies both
\* conditions (a second route line for a network with two candidates gets
\* the second candidate).
C20_FirstUnconsumedCandidate ==
    (netOut.called /\ netOut.outcome = "Ok") =>
        LET claimed == FirstCandidateBindings(RouteEntries, 1, Resolved.val, {})
        IN  /\ Len(netOut.bindings) = Len(claimed)
            /\ \A i \in 1..Len(claimed) :
                  /\ netOut.bindings[i].interface = claimed[i].interface
                  /\ netOut.bindings[i].address = claimed[i].address

\* a binding is the binding of a route entry: it carries the entry's device
\* and one of the resolved addresses, whose base network is the entry's
\* destination
IsBindingOf(b, entry, addresses) ==
    /\ b.interface = DeviceOf(entry)
    /\ BaseOf(b.address, b.netmask) = DestinationOf(entry)
    /\ \E k \in 1..Len(addresses) : addresses[k].address = b.address

\* the bindings i.. are bindings of entries among j.. , in the same order
RECURSIVE BoundInOrder(_, _, _, _, _)
BoundInOrder(bindings, i, entries, j, addresses) ==
    IF i > Len(bindings) THEN TRUE
    ELSE IF j > Len(entries) THEN FALSE
    ELSE IF IsBindingOf(bindings[i], entries[j], addresses)
    THEN BoundInOrder(bindings, i + 1, entries, j + 1, addresses)
    ELSE BoundInOrder(bindings, i, entries, j + 1, addresses)

\* the positions of the route entries whose destination is the base network
\* of some resolved address
Matched(entries, addresses) ==
    {i \in 1..Len(entries) :
        \E k \in 1..Len(addresses) :
            BaseOf(addresses[k].address, addresses[k].netmask) = DestinationOf(entries[i])}

MatchedInOrder(bindings, entries, addresses) ==
    /\ BoundInOrder(bindings, 1, entries, 1, addresses)
    /\ Len(bindings) <= Cardinality(Matched(entries, addresses))
    /\ Len(bindings) <= Len(entries)
    /\ Len(bindings) <= Cardinality({addresses[k].address : k \in 1..Len(addresses)})

\* C21: the result of getIPv4 contains no entry for a route line whose
\* destination network matches no resolved local address, the bindings appear
\* in the order of their route lines, and their number exceeds neither the
\* number of processed route lines nor the number of distinct resolved
\* addresses.
C21_MatchedInOrder ==
    (netOut.called /\ netOut.outcome = "Ok") =>
        MatchedInOrder(netOut.bindings, RouteEntries, Resolved.val)

\* a route entry to a network without local address, then one to the network
\* of 192.168.1.5: only the second is in the result
C21_Witness ==
    /\ netOut.called
    /\ netOut.outcome = "Ok"
    /\ RouteEntries = << RouteLine(Eth0, <<10, 0, 0, 0>>, <<0, 0, 0, 0>>),
                         RouteLine(Wlan0, <<192, 168, 1, 0>>, <<0, 0, 0, 0>>) >>
    /\ Len(Resolved.val) = 1
    /\ Len(netOut.bindings) = 1
    /\ netOut.bindings[1].interface = Wlan0
    /\ netOut.bindings[1].address = Dotted(<<192, 168, 1, 5>>)

\* two bindings, in the order of the route lines and not of the addresses
C21_WitnessOrder ==
    /\ netOut.called
    /\ netOut.outcome = "Ok"
    /\ Len(Resolved.val) = 2
    /\ Resolved.val[1].address = Dotted(<<192, 168, 1, 5>>)
    /\ Len(netOut.bindings) = 2
    /\ netOut.bindings[1].address = Dotted(<<10, 0, 0, 5>>)
    /\ netOut.bindings[2].address = Dotted(<<192, 168, 1, 5>>)

\* the netmask of a prefix length written in decimal
MaskOfPrefix(cidr) ==
    Dotted([i \in 1..4 |-> PrefixOctet(DecimalValue(cidr, Len(cidr)), i)])

\* a binding carries the four values of one resolved tuple, its netmask is
\* the mask of its prefix length, and it is bound to a route entry of its
\* device whose destination is its base network
IsTupleBinding(b, entries, addresses) ==
    /\ \E k \in 1..Len(addresses) :
          addresses[k] = [address |-> b.address, broadcast |-> b.broadcast,
                          netmask |-> b.netmask, cidr |-> b.cidr]
    /\ b.netmask = MaskOfPrefix(b.cidr)
    /\ \E i \in 1..Len(entries) :
          /\ DeviceOf(entries[i]) = b.interface
          /\ DestinationOf(entries[i])
                = Dotted([j \in 1..4 |-> BitAnd(OctetsOf(b.address)[j],
                                                OctetsOf(b.netmask)[j])])

AllTupleBindings(bindings, entries, addresses) ==
    \A n \in 1..Len(bindings) : IsTupleBinding(bindings[n], entries, addresses)

\* C27: every binding returned by getIPv4 carries the address, broadcast,
\* netmask and cidr of one and the same resolved tuple, its netmask equals
\* netmaskFromCidr(cidr), and the octet-wise bitwise AND of its address with
\* its netmask equals the decoded destination network of the route line it
\* was bound to.
C27_BindingIsOneTuple ==
    (netOut.called /\ netOut.outcome = "Ok") =>
        AllTupleBindings(netOut.bindings, RouteEntries, Resolved.val)

\* the second resolved tuple is bound first, with its own four values
C27_Witness ==
    /\ netOut.called
    /\ netOut.outcome = "Ok"
    /\ Len(Resolved.val) = 2
    /\ Resolved.val[1].address = Dotted(<<192, 168, 1, 6>>)
    /\ Len(netOut.bindings) = 2
    /\ netOut.bindings[1]
          = [address |-> Dotted(<<10, 0, 0, 5>>), interface |-> Eth0,
             broadcast |-> Dotted(<<10, 0, 255, 255>>),
             netmask |-> Dotted(<<255, 255, 0, 0>>), cidr |-> <<"1", "6">>]
    /\ netOut.bindings[2]
          = [address |-> Dotted(<<192, 168, 1, 6>>), interface |-> Wlan0,
             broadcast |-> Dotted(<<192, 168, 1, 127>>),
             netmask |-> Dotted(<<255, 255, 255, 128>>), cidr |-> <<"2", "5">>]

----------------------------------------------------------------------------
(* The specification of repeated getIPv4 calls: between two calls the kernel
   may replace the contents of /proc/net/route and /proc/net/fib_trie *)

\* a route to 10.0.0.0 through the gateway 192.168.1.1, the default route
\* through the same gateway, and the on-link route to 10.0.0.0
GatewayRoute == RouteLine(Wlan0, <<10, 0, 0, 0>>, <<192, 168, 1, 1>>)
DefaultRoute == RouteLine(Eth0, <<0, 0, 0, 0>>, <<192, 168, 1, 1>>)
OnLinkRoute == RouteLine(Eth0, <<10, 0, 0, 0>>, <<0, 0, 0, 0>>)

\* the route tables and the fib_trie contents the kernel goes through
KernelRoutes ==
    { [status |-> "ok", text |-> TextOf(<<RouteHeader>> \o lines)] :
        lines \in { <<DefaultRoute, OnLinkRoute>>,
                    <<GatewayRoute, OnLinkRoute>>,
                    <<OnLinkRoute>> } }

KernelTries ==
    { [status |-> "ok", text |-> TrieText(as, FALSE)] :
        as \in { <<[address |-> <<10, 0, 0, 5>>, cidr |-> 16]>>,
                 <<[address |-> <<192, 168, 1, 5>>, cidr |-> 24],
                   [address |-> <<10, 0, 0, 5>>, cidr |-> 16]>> } }

KernelStates == [route : KernelRoutes, fib_trie : KernelTries]

\* no call yet
NoCalls ==
    [fn |-> "none", calls |-> 0, files |-> NoIpFiles,
     earlier |-> [files |-> NoIpFiles, out |-> NoIpOut]]

\* a call: call keeps the files this call read, and the files and the
\* result of the call before it
GetIPv4Again ==
    /\ call.calls < MaxCalls
    /\ netOut' = getIPv4Again(netOut, netFiles, overflowChecks)
    /\ call' = [fn |-> "getIPv4", calls |-> call.calls + 1, files |-> netFiles,
                earlier |-> [files |-> call.files, out |-> netOut]]
    /\ UNCHANGED <<overflowChecks, host, gpuVars, netFiles>>

\* the kernel replaces the two files
KernelChange ==
    /\ call.calls < MaxCalls
    /\ netFiles' \in KernelStates \ {netFiles}
    /\ UNCHANGED <<overflowChecks, call, host, gpuVars, netOut>>

InitCalls ==
    /\ overflowChecks \in BOOLEAN
    /\ call = NoCalls
    /\ host = LinuxHost
    /\ gpuFile = NoGpuFile
    /\ gpuOut = NoGpuOut
    /\ netFiles \in KernelStates
    /\ netOut = NoIpOut

NextCalls == GetIPv4Again \/ KernelChange

SpecCalls == InitCalls /\ [][NextCalls]_vars

----------------------------------------------------------------------------
(* Claims about repeated getIPv4 calls and about gateway routes *)

\* a route line goes through a gateway when its Gateway column is not
\* 00000000
ThroughGateway(line) ==
    Len(Fields(line)) >= 3 /\ Fields(line)[3] # <<"0", "0", "0", "0", "0", "0", "0", "0">>

\* the lines i.. without the lines that go through a gateway
RECURSIVE WithoutGatewayFrom(_, _)
WithoutGatewayFrom(lines, i) ==
    IF i > Len(lines) THEN <<>>
    ELSE (IF lines[i] # RouteHeader /\ ThroughGateway(lines[i]) THEN <<>> ELSE <<lines[i]>>)
             \o WithoutGatewayFrom(lines, i + 1)

\* the files with the gateway routes taken out of the route table
WithoutGateway(files) ==
    [files EXCEPT !.route.text = TextOf(WithoutGatewayFrom(SplitOn(files.route.text, "\n"), 1))]

\* C22: getIPv4 correlates only non-gateway, non-header lines of
\* /proc/net/route: the header line, empty lines and every route line that
\* goes through a gateway are skipped and never produce a binding nor consume
\* an address, so the result is the result for the table without them.
C22_GatewayLinesSkipped ==
    (call.calls >= 1 /\ netOut.outcome = "Ok") =>
        netOut.bindings = getIPv4(WithoutGateway(call.files), overflowChecks).bindings

\* the header line and empty lines are skipped: the result is the result for
\* the route table without its header
C22_HeaderSkipped ==
    (call.calls >= 1 /\ netOut.outcome = "Ok") =>
        netOut.bindings
            = getIPv4([call.files EXCEPT !.route.text =
                          TextOf(RouteEntriesFrom(SplitOn(call.files.route.text, "\n"), 1))],
                      overflowChecks).bindings

C23_WitnessChanged ==
    /\ call.calls = 2
    /\ call.files # call.earlier.files
    /\ netOut.outcome = "Ok"
    /\ call.earlier.out.outcome = "Ok"
    /\ netOut.bindings # call.earlier.out.bindings

----------------------------------------------------------------------------
(* Claims about the platform check of the entry points *)

\* C28: on a host where /sys or /proc is missing, every public entry point of
\* the core (gpuMetrics, networkRoutes and getIPv4) detects the platform
\* mismatch at its boundary, before any file is read, and reports it instead
\* of returning data. This is the statement for getIPv4.
C28_GetIPv4ChecksPlatform ==
    (netOut.called /\ host # LinuxHost) =>
        (netOut.outcome = "Panic" /\ netOut.panic = "platform")

\* the statement for gpuMetrics: the call ends in the platform panic and has
\* not read the file
C28_GpuMetricsChecksPlatform ==
    (gpuOut.called /\ host # LinuxHost) =>
        (gpuOut.outcome = "Panic" /\ gpuOut.panic = "platform" /\ gpuOut.read = "none")

\* the statement for networkRoutes
C28_NetworkRoutesChecksPlatform ==
    (netOut.called /\ host # LinuxHost) =>
        (netOut.outcome = "Panic" /\ netOut.panic = "platform" /\ netOut.routes = <<>>)

----------------------------------------------------------------------------
(* Claims about the length of the gpu_metrics buffer *)

\* the names of the fields of a GpuMetrics record
GpuFieldNames == {GpuFields[i].name : i \in 1..Len(GpuFields)}

\* C30: with format byte 1, gpuMetrics returns a record exactly when the
\* buffer has at least 78 bytes (4 header bytes plus a 74-byte payload); for
\* every shorter buffer with format byte 1, and for every readable buffer of
\* fewer than 4 bytes whatever its content, the call ends in a fatal error,
\* never in unavailable and never in a partially filled record.
C30_RecordNeedsWholeBuffer ==
    (gpuOut.called /\ gpuOut.read = "ok") =>
        /\ Len(gpuOut.bytes) < 4 =>
              (gpuOut.outcome = "Panic" /\ gpuOut.panic = "index" /\ gpuOut.metrics = <<>>)
        /\ (Len(gpuOut.bytes) >= 4 /\ gpuOut.bytes[3] = 1) =>
              IF Len(gpuOut.bytes) >= 78
              THEN gpuOut.outcome = "Some" /\ DOMAIN gpuOut.metrics = GpuFieldNames
              ELSE gpuOut.outcome = "Panic" /\ gpuOut.panic = "index"
                       /\ gpuOut.metrics = <<>>

\* one byte short of the record: the last field is out of the payload
C30_Witness ==
    /\ gpuOut.called
    /\ gpuOut.read = "ok"
    /\ Len(gpuOut.bytes) = 77
    /\ gpuOut.bytes[3] = 1
    /\ gpuOut.outcome = "Panic"
    /\ gpuOut.indexOps = 3 + Len(GpuFields)

\* the shortest buffer that gives a record
C30_WitnessRecord ==
    /\ gpuOut.called
    /\ gpuOut.read = "ok"
    /\ Len(gpuOut.bytes) = 78
    /\ gpuOut.bytes[3] = 1
    /\ gpuOut.outcome = "Some"

\* a readable buffer of three bytes: the content byte is out of the buffer
C30_WitnessNoHeader ==
    /\ gpuOut.called
    /\ gpuOut.read = "ok"
    /\ Len(gpuOut.bytes) = 3
    /\ gpuOut.outcome = "Panic"
    /\ gpuOut.indexOps = 2

----------------------------------------------------------------------------
(* The specification of one getIPv4 call, one iteration of the fib_trie scan
   per step, on fib_trie contents of regular and irregular shapes *)

\* the lines of fib_trie: a node, the "link UNICAST" leaf of a network with
\* its prefix, a branch, the leaf of a local address, the leaf of a
\* broadcast address
NodeLine(octets) == Spaces(8) \o <<"|", "-", "-", " ">> \o Dotted(octets)
MarkerLine(prefix) == Spaces(11) \o <<"/">> \o prefix \o <<" ">> \o LinkUnicast
BranchLine(octets) ==
    Spaces(8) \o <<"+", "-", "-", " ">> \o Dotted(octets)
        \o <<"/", "2", "6", " ", "2", " ", "0", " ", "2">>
HostLocalLine == Spaces(11) \o <<"/", "3", "2", " ">> \o HostLocal
BroadcastLine ==
    Spaces(11) \o <<"/", "3", "2", " ", "l", "i", "n", "k", " ", "B", "R", "O", "A", "D",
                     "C", "A", "S", "T">>

\* the prefixes of the marker lines: two digits, one digit, not a number;
\* each with the network, the local address and the broadcast address of
\* its block
SamplePrefixes == {<<"2", "4">>, <<"8">>, <<"2", "x">>}

NetOfPrefix(prefix) ==
    IF prefix = <<"2", "4">>
    THEN [network |-> <<192, 168, 1, 0>>, address |-> <<192, 168, 1, 5>>,
          broadcast |-> <<192, 168, 1, 255>>]
    ELSE IF prefix = <<"8">>
    THEN [network |-> <<10, 0, 0, 0>>, address |-> <<10, 1, 2, 3>>,
          broadcast |-> <<10, 255, 255, 255>>]
    ELSE [network |-> <<172, 16, 0, 0>>, address |-> <<172, 16, 0, 9>>,
          broadcast |-> <<172, 16, 0, 255>>]

\* the block of a local address in its regular shape and in irregular ones:
\* with a branch after the marker, with a second marker (a /24 network at
\* the same node), cut after the marker, cut after the address, cut after
\* the "host LOCAL" line
ShapedBlock(shape, prefix) ==
    <<NodeLine(NetOfPrefix(prefix).network), MarkerLine(prefix)>>
    \o (IF shape = "branch" THEN <<BranchLine(NetOfPrefix(prefix).network)>>
        ELSE IF shape = "double" THEN <<MarkerLine(<<"2", "4">>)>>
        ELSE <<>>)
    \o (IF shape = "leaf" THEN <<>> ELSE <<NodeLine(NetOfPrefix(prefix).address)>>)
    \o (IF shape \in {"leaf", "noLocal"} THEN <<>> ELSE <<HostLocalLine>>)
    \o (IF shape \in {"leaf", "noLocal", "noBroadcast"} THEN <<>>
        ELSE <<NodeLine(NetOfPrefix(prefix).broadcast), BroadcastLine>>)

ShapedBlocks ==
    {ShapedBlock(shape, prefix) :
        shape \in {"regular", "branch", "double"}, prefix \in SamplePrefixes}
    \cup {ShapedBlock(shape, <<"2", "4">>) : shape \in {"leaf", "noLocal", "noBroadcast"}}

\* the lines of a sequence of blocks
RECURSIVE BlockLines(_)
BlockLines(blocks) ==
    IF Len(blocks) = 0 THEN <<>> ELSE blocks[1] \o BlockLines(Tail(blocks))

\* fib_trie: the Main table with up to n blocks
ShapedTries(n) ==
    { [status |-> "ok",
       text |-> TextOf(<<<<"M", "a", "i", "n", ":">>,
                         Spaces(2) \o <<"+", "-", "-", " ", "0", ".", "0", ".", "0", ".",
                                        "0", "/", "0", " ", "3", " ", "0", " ", "5">> >>
                       \o BlockLines(blocks))] :
        blocks \in SeqsUpTo(ShapedBlocks, n) }

\* the route table of the scanned hosts: on-link routes to 192.168.1.0 and
\* to 10.0.0.0
ScanRoutes ==
    [status |-> "ok",
     text |-> TextOf(<<RouteHeader,
                       RouteLine(Eth0, <<192, 168, 1, 0>>, <<0, 0, 0, 0>>),
                       RouteLine(Wlan0, <<10, 0, 0, 0>>, <<0, 0, 0, 0>>)>>)]

\* the position of a getIPv4 call: before the files are read, in the scan
\* loop at index with the tuples pushed so far, or returned
ScanStart ==
    [fn |-> "getIPv4", pc |-> "start", lines |-> <<>>, index |-> 0, addresses |-> <<>>,
     iterations |-> 0]

\* lines 235-242: the files are read and fib_trie is split into lines
ReadFiles ==
    /\ call.pc = "start"
    /\ call' = [call EXCEPT !.pc = "scan",
                            !.lines = SplitOn(readFile(netFiles.fib_trie), "\n")]
    /\ UNCHANGED <<overflowChecks, host, gpuVars, netVars>>

\* what an iteration leaves in the call: the loop goes on, or the call
\* unwinds with the panic
AfterIteration(scanned) ==
    IF scanned.panic # "none"
    THEN /\ call' = [call EXCEPT !.pc = "done", !.iterations = @ + 1]
         /\ netOut' = IpOutcome(Panic(scanned.panic))
    ELSE /\ call' = [call EXCEPT !.index = scanned.index,
                                 !.addresses = scanned.addresses,
                                 !.iterations = @ + 1]
         /\ UNCHANGED netOut

\* lines 244-278: one iteration of the while loop
ScanLine ==
    /\ call.pc = "scan"
    /\ call.index < Len(call.lines)
    /\ AfterIteration(ScanIteration(call.lines, call.index, call.addresses,
                                    overflowChecks))
    /\ UNCHANGED <<overflowChecks, host, gpuVars, netFiles>>

\* lines 280-328: the loop is left, the route table is correlated and the
\* call returns
CorrelateAndReturn ==
    /\ call.pc = "scan"
    /\ call.index >= Len(call.lines)
    /\ netOut' = IpOutcome(Correlate(readFile(netFiles.route), NoPanic(call.addresses)))
    /\ call' = [call EXCEPT !.pc = "done"]
    /\ UNCHANGED <<overflowChecks, host, gpuVars, netFiles>>

InitScan ==
    /\ overflowChecks \in BOOLEAN
    /\ call = ScanStart
    /\ host = LinuxHost
    /\ gpuFile = NoGpuFile
    /\ gpuOut = NoGpuOut
    /\ netFiles \in [route : {ScanRoutes}, fib_trie : ShapedTries(MaxBlocks)]
    /\ netOut = NoIpOut

NextScan == ReadFiles \/ ScanLine \/ CorrelateAndReturn

SpecScan == InitScan /\ [][NextScan]_vars

\* the call, step by step, returns what getIPv4 returns
ScanReturnsGetIPv4 ==
    call.pc = "done" => netOut = getIPv4(netFiles, overflowChecks)

----------------------------------------------------------------------------
(* Claims about the fib_trie scan *)

IsMarker(line) == ContainsStr(line, LinkUnicast)
IsBranch(line) == Contains(line, "+")
IsHostLocal(line) == ContainsStr(line, HostLocal)

\* the text between "/" and " link UNICAST" of a marker line
PrefixText(line) == SubSeq(Trim(line), 2, Len(Trim(line)) - Len(LinkUnicast) - 1)

\* a prefix length in decimal, 0..32
IsPrefixLength(p) ==
    /\ Len(p) \in 1..2
    /\ \A i \in 1..Len(p) : p[i] \in DecimalDigits
    /\ DecimalValue(p, Len(p)) <= 32

\* the first line from i on that is not a "+" line, and the first "host
\* LOCAL" line from i on; 0 when there is none
NextNotBranch(lines, i) ==
    IF \E j \in i..Len(lines) : ~IsBranch(lines[j])
    THEN Nth({j \in i..Len(lines) : ~IsBranch(lines[j])}, 1)
    ELSE 0

NextHostLocal(lines, i) ==
    IF \E j \in i..Len(lines) : IsHostLocal(lines[j])
    THEN Nth({j \in i..Len(lines) : IsHostLocal(lines[j])}, 1)
    ELSE 0

\* the text of a node line
NodeText(line) == Trim(RemoveAll(line, Branch))

\* the marker at m is followed by "+" lines, then by a line a, then by a
\* "host LOCAL" line h that has a line after it
BranchesThenAddress(lines, m, a, h) ==
    /\ IsMarker(lines[m])
    /\ m < Len(lines)
    /\ IsBranch(lines[m + 1])
    /\ a = NextNotBranch(lines, m + 1)
    /\ a # 0
    /\ h = NextHostLocal(lines, a)
    /\ h # 0
    /\ h < Len(lines)

\* C24: in the fib_trie scan, when the lines that follow a "link UNICAST"
\* marker are "+" branch lines, they are skipped and the first following
\* line that is not a "+" line supplies the address of that marker's tuple;
\* the tuple's broadcast is the line that follows the next "host LOCAL"
\* line, and the marker still yields a tuple carrying its own CIDR.
C24_BranchLinesSkipped ==
    (call.pc = "done" /\ netOut.outcome = "Ok") =>
        \A m, a, h \in 1..Len(call.lines) :
            BranchesThenAddress(call.lines, m, a, h) =>
                \E k \in 1..Len(call.addresses) :
                    /\ call.addresses[k].address = NodeText(call.lines[a])
                    /\ call.addresses[k].broadcast = NodeText(call.lines[h + 1])
                    /\ call.addresses[k].cidr = PrefixText(call.lines[m])

\* the positions of the marker lines
Markers(lines) == {m \in 1..Len(lines) : IsMarker(lines[m])}

\* the marker at m heads a regular block: the next line is the address, a
\* "host LOCAL" line follows with a line after it, and no other marker is in
\* between
HeadsRegularBlock(lines, m) ==
    /\ m < Len(lines)
    /\ ~IsBranch(lines[m + 1])
    /\ NextHostLocal(lines, m + 1) # 0
    /\ NextHostLocal(lines, m + 1) < Len(lines)
    /\ \A j \in (m + 1)..(NextHostLocal(lines, m + 1) + 1) : ~IsMarker(lines[j])

\* every marker has a prefix length from digits and heads a regular block
RegularTrie(lines, digits) ==
    \A m \in Markers(lines) :
        /\ IsPrefixLength(PrefixText(lines[m]))
        /\ Len(PrefixText(lines[m])) \in digits
        /\ HeadsRegularBlock(lines, m)

\* the n-th marker gave the n-th tuple, with its prefix and the netmask of
\* its prefix
PrefixesRecorded(lines, addresses) ==
    /\ Len(addresses) = Cardinality(Markers(lines))
    /\ \A n \in 1..Len(addresses) :
          /\ addresses[n].cidr = PrefixText(lines[Nth(Markers(lines), n)])
          /\ addresses[n].netmask = MaskOfPrefix(PrefixText(lines[Nth(Markers(lines), n)]))
          /\ addresses[n].address = NodeText(lines[Nth(Markers(lines), n) + 1])

\* C25: for every marker line "/p link UNICAST" with prefix length p in
\* 0..32 that yields a tuple, the tuple records cidr = p and netmask =
\* netmaskFromCidr(p); this holds for one-digit prefixes (0..9) as well as
\* two-digit ones: in a fib_trie of regular blocks every marker yields its
\* tuple.
C25_PrefixRecorded ==
    (call.pc = "done" /\ Markers(call.lines) # {} /\ RegularTrie(call.lines, {1, 2})) =>
        /\ netOut.outcome = "Ok"
        /\ PrefixesRecorded(call.lines, call.addresses)

\* the same for the markers with a two-digit prefix
C25_TwoDigitPrefixRecorded ==
    (call.pc = "done" /\ Markers(call.lines) # {} /\ RegularTrie(call.lines, {2})) =>
        /\ netOut.outcome = "Ok"
        /\ PrefixesRecorded(call.lines, call.addresses)

\* the marker at m has an address line after it
HasAddressLine(lines, m) ==
    /\ IsMarker(lines[m])
    /\ m < Len(lines)
    /\ ~IsBranch(lines[m + 1])
    /\ ~IsMarker(lines[m + 1])

\* the irregular shapes: a marker on the last line, an address line that no
\* "host LOCAL" line follows, a "host LOCAL" line that is the last line and
\* the one that follows an address line, a marker whose prefix is not a
\* number
MarkerIsLast(lines) == IsMarker(lines[Len(lines)])

NoHostLocalFollows(lines) ==
    \E m \in 1..Len(lines) :
        HasAddressLine(lines, m) /\ NextHostLocal(lines, m + 1) = 0

HostLocalIsLast(lines) ==
    \E m \in 1..Len(lines) :
        HasAddressLine(lines, m) /\ NextHostLocal(lines, m + 1) = Len(lines)

PrefixNotANumber(lines) ==
    \E m \in Markers(lines) :
        \E i \in 1..Len(PrefixText(lines[m])) : PrefixText(lines[m])[i] \notin DecimalDigits

\* C26: any irregular line shape in fib_trie makes getIPv4 end in a fatal
\* error rather than return a partial or wrong result: a "link UNICAST"
\* marker on the last line, an address line that is never followed by a
\* "host LOCAL" line, a "host LOCAL" line that is the last line, or a marker
\* whose prefix substring is not a number.
C26_IrregularShapeIsFatal ==
    (/\ call.pc = "done"
     /\ \/ MarkerIsLast(call.lines)
        \/ NoHostLocalFollows(call.lines)
        \/ HostLocalIsLast(call.lines)
        \/ PrefixNotANumber(call.lines)) => netOut.outcome = "Panic"

\* the three shapes in which the file ends too early are fatal
C26_CutShapeIsFatal ==
    (/\ call.pc = "done"
     /\ \/ MarkerIsLast(call.lines)
        \/ NoHostLocalFollows(call.lines)
        \/ HostLocalIsLast(call.lines)) =>
        netOut.outcome = "Panic"

\* a step of the scan loop is an iteration that leaves a greater index, or
\* the end of the loop
ScanAdvances ==
    call.pc = "scan" =>
        \/ call'.pc = "scan" /\ call'.index > call.index
               /\ call'.iterations = call.iterations + 1
        \/ call'.pc = "done" /\ netOut'.called

\* C29: the fib_trie scan loop of getIPv4 terminates on every finite input:
\* every iteration, including the two early 'continue' branches (next line is
\* a "+" line, next line is another marker), strictly increases the line
\* index, so the scan always ends by leaving the loop or by a fatal error and
\* never revisits a line: the loop makes no more iterations than there are
\* lines.
C29_ScanTerminates ==
    /\ [][ScanAdvances]_vars
    /\ [](call.pc = "scan" => call.iterations <= call.index)
    /\ [](call.iterations <= Len(call.lines))

\* a scan that took both 'continue' branches and left the loop
C29_Witness ==
    /\ call.pc = "done"
    /\ netOut.outcome = "Ok"
    /\ \E m \in 1..(Len(call.lines) - 1) :
          IsMarker(call.lines[m]) /\ IsBranch(call.lines[m + 1])
    /\ \E m \in 1..(Len(call.lines) - 1) :
          IsMarker(call.lines[m]) /\ IsMarker(call.lines[m + 1])
    /\ call.iterations > 0
    /\ call.iterations < Len(call.lines)
    /\ call.index = Len(call.lines)

\* a scan that ended in a fatal error
C29_WitnessFatal ==
    /\ call.pc = "done"
    /\ netOut.outcome = "Panic"
    /\ call.iterations > 1
    /\ call.index < Len(call.lines)

====
